---- MODULE Spec2Model ----
(***************************************************************************)
(* The incremental document database of quench (src/src/db.rs): the salsa  *)
(* inputs opened_files and source_text, the memoized derived queries       *)
(* source_index, ast, diagnostics and semantic_tokens, and the bookkeeping *)
(* operations open_document, edit_document and close_document together     *)
(* with the request types that reach them.                                 *)
(***************************************************************************)
EXTENDS Integers, Sequences, FiniteSets, TLC

(***************************************************************************)
(* Bounds of the model.                                                    *)
(***************************************************************************)
\* the worker handles at most this many requests in a run of Spec
MaxRequests == 4
\* and at most this many in a run of SpecChange, whose requests are much more varied
MaxChangeRequests == 2
\* the handler tasks of a run of the actor
MaxTasks == 3
\* the handler tasks of a run of the actor under fair scheduling
MaxFairTasks == 2
\* the nodes of a tree handed to the walks, and the tokens of a list handed to the delta pass
MaxNodes == 4
MaxTokens == 3
\* requests handled in a run of SpecLifecycle
MaxLifecycleRequests == 5

(***************************************************************************)
(* Option<T>                                                               *)
(***************************************************************************)
None == [some |-> FALSE]
Some(v) == [some |-> TRUE, val |-> v]

(***************************************************************************)
(* Documents.  A Url is an opaque comparable key; a text is a String.      *)
(* TLC cannot index into a string, so Chars gives each sample text as the  *)
(* sequence of its characters.  The sample texts are the ones of the unit  *)
(* tests of db.rs and of examples/hello.qn.                                *)
(***************************************************************************)
Uri == {"file:///tmp/foo.qn", "file:///tmp/bar.qn"}

EmptyText == ""
BadText == "print(\"Hello,\"\" world!\")"
HelloText == "#!/usr/bin/env quench\n\nprint(\"Hello, world!\");\n"
MultiText == "print(\"long line\nvery long middle line\nshort\");"

\* a text with characters outside ASCII, written as Rust writes it
WideText == "s = \"\\u{e9}\n\\u{1f600} b\nc\";"

Texts == {EmptyText, BadText, HelloText, MultiText}

Chars(text) ==
  CASE text = EmptyText -> <<>>
    [] text = BadText ->
         <<"p", "r", "i", "n", "t", "(", "\"", "H", "e", "l", "l", "o", ",", "\"",
           "\"", " ", "w", "o", "r", "l", "d", "!", "\"", ")">>
    [] text = HelloText ->
         <<"#", "!", "/", "u", "s", "r", "/", "b", "i", "n", "/", "e", "n", "v", " ",
           "q", "u", "e", "n", "c", "h", "\n", "\n", "p", "r", "i", "n", "t", "(",
           "\"", "H", "e", "l", "l", "o", ",", " ", "w", "o", "r", "l", "d", "!",
           "\"", ")", ";", "\n">>
    [] text = MultiText ->
         <<"p", "r", "i", "n", "t", "(", "\"", "l", "o", "n", "g", " ", "l", "i", "n",
           "e", "\n", "v", "e", "r", "y", " ", "l", "o", "n", "g", " ", "m", "i", "d",
           "d", "l", "e", " ", "l", "i", "n", "e", "\n", "s", "h", "o", "r", "t", "\"",
           ")", ";">>
    [] text = WideText ->
         <<"s", " ", "=", " ", "\"", "\\u{e9}", "\n", "\\u{1f600}", " ", "b", "\n",
           "c", "\"", ";">>

\* number of UTF-8 bytes and of UTF-16 code units of one character
Utf8Len(c) == CASE c = "\\u{e9}" -> 2 [] c = "\\u{1f600}" -> 4 [] OTHER -> 1
Utf16Len(c) == CASE c = "\\u{1f600}" -> 2 [] OTHER -> 1

(***************************************************************************)
(* text::Index: the characters of each line of the text.                   *)
(* to_lsp maps a tree-sitter Point (row, byte column) to an LSP Position   *)
(* (line, UTF-16 offset), saturating a column past the end of the row to   *)
(* the row's end.  A column of -1 stands for usize::MAX.                   *)
(***************************************************************************)
RECURSIVE SplitLines(_, _, _)
SplitLines(chars, i, line) ==
  IF i > Len(chars) THEN <<line>>
  ELSE IF chars[i] = "\n" THEN <<line>> \o SplitLines(chars, i + 1, <<>>)
  ELSE SplitLines(chars, i + 1, Append(line, chars[i]))

IndexNew(text) == SplitLines(Chars(text), 1, <<>>)

UsizeMax == -1

RECURSIVE Utf16Offset(_, _, _, _, _)
Utf16Offset(line, i, bytes, units, column) ==
  IF i > Len(line) \/ (column /= UsizeMax /\ bytes >= column) THEN units
  ELSE Utf16Offset(line, i + 1, bytes + Utf8Len(line[i]), units + Utf16Len(line[i]), column)

Point(row, column) == [row |-> row, column |-> column]
Position(line, character) == [line |-> line, character |-> character]

to_lsp(index, point) ==
  Position(point.row, Utf16Offset(index[point.row + 1], 1, 0, 0, point.column))

(***************************************************************************)
(* The parser boundary: a Node has a kind, a start and an end Point, the   *)
(* is_error and is_missing marks and its ordered children.                 *)
(***************************************************************************)
Node(kind, sr, sc, er, ec, children) ==
  [kind |-> kind, start |-> Point(sr, sc), end |-> Point(er, ec),
   is_error |-> FALSE, is_missing |-> FALSE, children |-> children]
ErrorNode(sr, sc, er, ec, children) ==
  [kind |-> "ERROR", start |-> Point(sr, sc), end |-> Point(er, ec),
   is_error |-> TRUE, is_missing |-> FALSE, children |-> children]
MissingNode(kind, r, c) ==
  [kind |-> kind, start |-> Point(r, c), end |-> Point(r, c),
   is_error |-> FALSE, is_missing |-> TRUE, children |-> <<>>]

EmptyTree == Node("source_file", 0, 0, 0, 0, <<>>)

BadTree ==
  Node("source_file", 0, 0, 0, 24, <<
    Node("call", 0, 0, 0, 24, <<
      Node("identifier", 0, 0, 0, 5, <<>>),
      Node("arguments", 0, 5, 0, 24, <<
        Node("(", 0, 5, 0, 6, <<>>),
        ErrorNode(0, 6, 0, 14, << Node("string", 0, 6, 0, 14, <<>>) >>),
        Node("string", 0, 14, 0, 23, <<>>),
        Node(")", 0, 23, 0, 24, <<>>) >>) >>),
    MissingNode(";", 0, 24) >>)

HelloTree ==
  Node("source_file", 0, 0, 3, 0, <<
    Node("comment", 0, 0, 0, 21, <<>>),
    Node("call", 2, 0, 2, 22, <<
      Node("identifier", 2, 0, 2, 5, <<>>),
      Node("arguments", 2, 5, 2, 22, <<
        Node("(", 2, 5, 2, 6, <<>>),
        Node("string", 2, 6, 2, 21, <<>>),
        Node(")", 2, 21, 2, 22, <<>>) >>) >>),
    Node(";", 2, 22, 2, 23, <<>>) >>)

MultiTree ==
  Node("source_file", 0, 0, 2, 8, <<
    Node("call", 0, 0, 2, 7, <<
      Node("identifier", 0, 0, 0, 5, <<>>),
      Node("arguments", 0, 5, 2, 7, <<
        Node("(", 0, 5, 0, 6, <<>>),
        Node("string", 0, 6, 2, 6, <<>>),
        Node(")", 2, 6, 2, 7, <<>>) >>) >>),
    Node(";", 2, 7, 2, 8, <<>>) >>)

\* parser.parse(text, None).unwrap()
Parse(text) ==
  CASE text = EmptyText -> EmptyTree
    [] text = BadText -> BadTree
    [] text = HelloText -> HelloTree
    [] text = MultiText -> MultiTree

(***************************************************************************)
(* Diagnostics                                                             *)
(***************************************************************************)
SeverityError == "Error"

Range(start, end) == [start |-> start, end |-> end]

make_diagnostic(range, message, severity) ==
  [range |-> range, message |-> message, severity |-> severity]

\* a walk that reports the error nodes and takes a missing node for a plain one
RECURSIVE DiagnosticsErrorsOnly(_, _)
RECURSIVE ErrorsOnlyOfChildren(_, _, _)
ErrorsOnlyOfChildren(children, i, index) ==
  IF i > Len(children) THEN <<>>
  ELSE DiagnosticsErrorsOnly(children[i], index) \o ErrorsOnlyOfChildren(children, i + 1, index)
DiagnosticsErrorsOnly(node, index) ==
  IF node.is_error
  THEN << make_diagnostic(
            Range(to_lsp(index, node.start), to_lsp(index, node.end)),
            "syntax error", SeverityError) >>
  ELSE ErrorsOnlyOfChildren(node.children, 1, index)

\* a walk that goes on below the node it reported
RECURSIVE DiagnosticsDescending(_, _)
RECURSIVE DescendingOfChildren(_, _, _)
DescendingOfChildren(children, i, index) ==
  IF i > Len(children) THEN <<>>
  ELSE DiagnosticsDescending(children[i], index) \o DescendingOfChildren(children, i + 1, index)
DiagnosticsDescending(node, index) ==
  (IF node.is_error \/ node.is_missing
   THEN << make_diagnostic(
             Range(to_lsp(index, node.start), to_lsp(index, node.end)),
             IF node.is_error THEN "syntax error" ELSE "syntax missing",
             SeverityError) >>
   ELSE <<>>)
  \o DescendingOfChildren(node.children, 1, index)

RECURSIVE diagnostics_helper(_, _)
RECURSIVE DiagnosticsOfChildren(_, _, _)
DiagnosticsOfChildren(children, i, index) ==
  IF i > Len(children) THEN <<>>
  ELSE diagnostics_helper(children[i], index) \o DiagnosticsOfChildren(children, i + 1, index)

diagnostics_helper(node, index) ==
  IF node.is_error \/ node.is_missing
  THEN << make_diagnostic(
            Range(to_lsp(index, node.start), to_lsp(index, node.end)),
            IF node.is_error THEN "syntax error" ELSE "syntax missing",
            SeverityError) >>
  ELSE DiagnosticsOfChildren(node.children, 1, index)

(***************************************************************************)
(* Semantic tokens                                                         *)
(***************************************************************************)
\* enum TokenType, `as u32`
Comment == 0
String == 1
Variable == 2

\* TokenType::iter(): the variants in the order of their declaration
TokenTypeIter == <<Comment, String, Variable>>

\* SemanticTokenType::COMMENT, STRING, VARIABLE
semantic_token_type(token_type) ==
  CASE token_type = Comment -> "comment"
    [] token_type = String -> "string"
    [] token_type = Variable -> "variable"

\* a legend in the order in which the protocol lists its predefined token types
TokenTypesProtocolOrder == <<"variable", "comment", "string">>

token_types == [i \in 1..Len(TokenTypeIter) |-> semantic_token_type(TokenTypeIter[i])]

\* SemanticTokensLegend of Backend::initialize
Legend == [token_types |-> token_types, token_modifiers |-> <<>>]

\* a - b on u32: a subtraction that would go below zero panics in a debug build and
\* wraps in a release build; U32Underflow stands for that outcome
U32Underflow == -1
U32Sub(a, b) == IF a >= b THEN a - b ELSE U32Underflow

\* a token whose missing end column is taken for column 0
ViaIndexEndZero(index, row, column, end, token_type) ==
  LET pos == to_lsp(index, Point(row, column))
  IN  [line |-> pos.line,
       start |-> pos.character,
       length |-> U32Sub(to_lsp(index, Point(row, IF end.some THEN end.val ELSE 0)).character,
                         pos.character),
       token_type |-> token_type]

via_index(index, row, column, end, token_type) ==
  LET pos == to_lsp(index, Point(row, column))
  IN  [line |-> pos.line,
       start |-> pos.character,
       length |-> U32Sub(to_lsp(index, Point(row, IF end.some THEN end.val ELSE UsizeMax)).character,
                         pos.character),
       token_type |-> token_type]

KindTokenType(kind) ==
  CASE kind = "comment" -> Some(Comment)
    [] kind = "string" -> Some(String)
    [] kind = "identifier" -> Some(Variable)
    [] OTHER -> None

\* a loop over the rows that keeps the start column of the first row
RECURSIVE RowTokensKeepColumn(_, _, _, _, _)
RowTokensKeepColumn(index, row, end_row, column, token_type) ==
  IF row >= end_row THEN <<>>
  ELSE <<via_index(index, row, column, None, token_type)>>
       \o RowTokensKeepColumn(index, row + 1, end_row, column, token_type)

RECURSIVE RowTokens(_, _, _, _, _)
\* the loop `for row in start.row..end.row`, column being 0 after the first row
RowTokens(index, row, end_row, column, token_type) ==
  IF row >= end_row THEN <<>>
  ELSE <<via_index(index, row, column, None, token_type)>>
       \o RowTokens(index, row + 1, end_row, 0, token_type)

RECURSIVE absolute_tokens(_, _)
\* a loop over the children that appends the tokens of a child before those of the
\* children in front of it
RECURSIVE TokensOfChildrenReversed(_, _, _)
TokensOfChildrenReversed(children, i, index) ==
  IF i > Len(children) THEN <<>>
  ELSE TokensOfChildrenReversed(children, i + 1, index) \o absolute_tokens(children[i], index)

RECURSIVE TokensOfChildren(_, _, _)
TokensOfChildren(children, i, index) ==
  IF i > Len(children) THEN <<>>
  ELSE absolute_tokens(children[i], index) \o TokensOfChildren(children, i + 1, index)

absolute_tokens(node, index) ==
  LET tt == KindTokenType(node.kind)
  IN  IF tt.some
      THEN RowTokens(index, node.start.row, node.end.row, node.start.column, tt.val)
           \o <<via_index(index, node.end.row,
                          IF node.start.row < node.end.row THEN 0 ELSE node.start.column,
                          Some(node.end.column), tt.val)>>
      ELSE TokensOfChildren(node.children, 1, index)

SemanticToken(delta_line, delta_start, length, token_type) ==
  [delta_line |-> delta_line, delta_start |-> delta_start, length |-> length,
   token_type |-> token_type, token_modifiers_bitset |-> 0]

\* a loop that never moves last_line and last_start on from the first token
RECURSIVE RelativeRestStaleLast(_, _, _, _)
RelativeRestStaleLast(tokens, i, last_line, last_start) ==
  IF i > Len(tokens) THEN <<>>
  ELSE <<SemanticToken(U32Sub(tokens[i].line, last_line),
                       IF tokens[i].line = last_line
                       THEN U32Sub(tokens[i].start, last_start)
                       ELSE tokens[i].start,
                       tokens[i].length, tokens[i].token_type)>>
       \o RelativeRestStaleLast(tokens, i + 1, last_line, last_start)

\* a loop that subtracts the previous start on every line
RECURSIVE RelativeRestAlwaysDelta(_, _, _, _)
RelativeRestAlwaysDelta(tokens, i, last_line, last_start) ==
  IF i > Len(tokens) THEN <<>>
  ELSE <<SemanticToken(U32Sub(tokens[i].line, last_line),
                       U32Sub(tokens[i].start, last_start),
                       tokens[i].length, tokens[i].token_type)>>
       \o RelativeRestAlwaysDelta(tokens, i + 1, tokens[i].line, tokens[i].start)

RECURSIVE RelativeRest(_, _, _, _)
RelativeRest(tokens, i, last_line, last_start) ==
  IF i > Len(tokens) THEN <<>>
  ELSE <<SemanticToken(U32Sub(tokens[i].line, last_line),
                       IF tokens[i].line = last_line
                       THEN U32Sub(tokens[i].start, last_start)
                       ELSE tokens[i].start,
                       tokens[i].length, tokens[i].token_type)>>
       \o RelativeRest(tokens, i + 1, tokens[i].line, tokens[i].start)

make_relative(tokens) ==
  IF tokens = <<>> THEN <<>>
  ELSE <<SemanticToken(tokens[1].line, tokens[1].start, tokens[1].length, tokens[1].token_type)>>
       \o RelativeRest(tokens, 2, tokens[1].line, tokens[1].start)

(***************************************************************************)
(* The salsa storage.  Every write of an input creates a new revision and  *)
(* stamps the input with it.  A memo of a derived query holds its value,   *)
(* the revision at which it was last verified, the revision at which its   *)
(* value last changed and the dependencies its last execution read.        *)
(***************************************************************************)
VARIABLES revision, opened_files, source_text, memo,
          panicked, handled, request, reply, pre, lastWrite, executed

\* State: the worker thread, the mpsc channel, the senders suspended in tx.send, the
\* request the worker has received, the handler tasks of lsp.rs and their oneshot
\* channels; enqueued and applied log the order of the sends and of the processing,
\* returned is the State operation that returned last; tx is the Sender that the State
\* holds, the only one of the channel
VARIABLES worker, buffer, waiters, current, tasks, oneshot, enqueued, applied, returned, tx

\* the tree walks taken alone: the root node and the text index handed to
\* diagnostics_helper and absolute_tokens, the absolute tokens handed to make_relative,
\* what the function applied last returned, and the first run of make_relative
VARIABLES root, text_index, absolute, output, first_run

storeVars == <<revision, opened_files, source_text, memo,
               panicked, handled, request, reply, pre, lastWrite, executed>>
actorVars == <<worker, buffer, waiters, current, tasks, oneshot, enqueued, applied,
               returned, tx>>
walkVars == <<root, text_index, absolute, output, first_run>>

vars == <<revision, opened_files, source_text, memo,
          panicked, handled, request, reply, pre, lastWrite, executed,
          worker, buffer, waiters, current, tasks, oneshot, enqueued, applied, returned,
          root, text_index, absolute, output, first_run>>

Queries == {"source_index", "ast", "diagnostics", "semantic_tokens"}
Slots == Queries \X Uri

OpenedFilesDep == <<"opened_files", "">>
SourceTextDep(key) == <<"source_text", key>>

Db == [revision |-> revision, opened_files |-> opened_files,
       source_text |-> source_text, memo |-> memo]

set_opened_files(d, files) ==
  [d EXCEPT !.revision = @ + 1,
            !.opened_files = [value |-> files, changed_at |-> d.revision + 1]]

set_source_text(d, key, text) ==
  [d EXCEPT !.revision = @ + 1,
            !.source_text[key] = Some([value |-> text, changed_at |-> d.revision + 1])]

\* Database::default(): a fresh storage at salsa's first revision, then set_opened_files
StartRevision == 1
DatabaseDefault ==
  set_opened_files([revision |-> StartRevision,
                    opened_files |-> [value |-> {}, changed_at |-> 0],
                    source_text |-> [u \in Uri |-> None],
                    memo |-> [s \in Slots |-> None]], {})

SetMax(S) == CHOOSE x \in S : \A y \in S : y <= x

DepChangedAt(d, dep) ==
  IF dep = OpenedFilesDep THEN d.opened_files.changed_at
  ELSE IF dep[1] = "source_text" THEN d.source_text[dep[2]].val.changed_at
  ELSE d.memo[dep].val.changed_at

\* an equality of Ast that compares the trees
AstEqStructural(a, b) == a.tree = b.tree

\* impl PartialEq for Ast: ptr::eq
AstEq(a, b) == a.id = b.id

\* the comparison salsa makes between a memoized value and a recomputed one
ValueEq(q, a, b) ==
  IF q = "ast"
  THEN (~a.some /\ ~b.some) \/ (a.some /\ b.some /\ AstEq(a.val, b.val))
  ELSE a = b

(***************************************************************************)
(* The query functions.  Each gives the value, the dependencies read and   *)
(* whether the read of an input that was never set made it panic.          *)
(***************************************************************************)
source_index(d, key) ==
  IF key \in d.opened_files.value
  THEN [value |-> IF d.source_text[key].some
                  THEN Some(IndexNew(d.source_text[key].val.value)) ELSE None,
        deps |-> {OpenedFilesDep, SourceTextDep(key)},
        panicked |-> ~d.source_text[key].some]
  ELSE [value |-> None, deps |-> {OpenedFilesDep}, panicked |-> FALSE]

\* ast without the opened_files gate: the text is read and parsed for every key
AstUngated(d, key) ==
  [value |-> IF d.source_text[key].some
             THEN Some([tree |-> Parse(d.source_text[key].val.value),
                        id |-> <<key, d.revision>>])
             ELSE None,
   deps |-> {SourceTextDep(key)},
   panicked |-> ~d.source_text[key].some]

\* ast that does not record its read of the source text
AstNoTextDep(d, key) ==
  IF key \in d.opened_files.value
  THEN [value |-> IF d.source_text[key].some
                  THEN Some([tree |-> Parse(d.source_text[key].val.value),
                             id |-> <<key, d.revision>>])
                  ELSE None,
        deps |-> {OpenedFilesDep},
        panicked |-> ~d.source_text[key].some]
  ELSE [value |-> None, deps |-> {OpenedFilesDep}, panicked |-> FALSE]

\* the Rc<Ast> allocated by an execution is a new object: at most one execution of
\* ast(key) happens per revision, so (key, revision) names the allocation
ast(d, key) ==
  IF key \in d.opened_files.value
  THEN [value |-> IF d.source_text[key].some
                  THEN Some([tree |-> Parse(d.source_text[key].val.value),
                             id |-> <<key, d.revision>>])
                  ELSE None,
        deps |-> {OpenedFilesDep, SourceTextDep(key)},
        panicked |-> ~d.source_text[key].some]
  ELSE [value |-> None, deps |-> {OpenedFilesDep}, panicked |-> FALSE]

diagnostics(index, tree) ==
  IF index.some /\ tree.some THEN diagnostics_helper(tree.val.tree, index.val) ELSE <<>>

semantic_tokens(index, tree) ==
  IF index.some /\ tree.some
  THEN make_relative(absolute_tokens(tree.val.tree, index.val)) ELSE <<>>

(***************************************************************************)
(* Reading a derived query: a memo verified in the current revision is     *)
(* returned; a memo none of whose dependencies changed since it was        *)
(* verified is marked verified and returned; otherwise the query function  *)
(* runs, and a result equal to the memoized one keeps the old changed_at.  *)
(***************************************************************************)
MemoFresh(d, slot) == d.memo[slot].some /\ d.memo[slot].val.verified_at = d.revision

\* a memo that is taken as valid without looking at its dependencies
MemoValidWithoutDeps(d, slot) == d.memo[slot].some

MemoValid(d, slot) ==
  /\ d.memo[slot].some
  /\ \A dep \in d.memo[slot].val.deps :
        DepChangedAt(d, dep) <= d.memo[slot].val.verified_at

Store(d, slot, r) ==
  LET m == d.memo[slot]
      changed_at == IF m.some /\ ValueEq(slot[1], m.val.value, r.value)
                    THEN m.val.changed_at
                    ELSE SetMax({DepChangedAt(d, dep) : dep \in r.deps})
  IN  [d EXCEPT !.memo[slot] = Some([value |-> r.value, verified_at |-> d.revision,
                                     changed_at |-> changed_at, deps |-> r.deps])]

\* a read that keeps no memo apart: the query function runs at every read
ReadNoMemo(d, slot, r) ==
  IF r.panicked
  THEN [db |-> d, value |-> r.value, executed |-> {slot}, panicked |-> TRUE]
  ELSE [db |-> Store(d, slot, r), value |-> r.value, executed |-> {slot}, panicked |-> FALSE]

Read(d, slot, r) ==
  IF MemoFresh(d, slot)
  THEN [db |-> d, value |-> d.memo[slot].val.value, executed |-> {}, panicked |-> FALSE]
  ELSE IF MemoValid(d, slot)
  THEN [db |-> [d EXCEPT !.memo[slot].val.verified_at = d.revision],
        value |-> d.memo[slot].val.value, executed |-> {}, panicked |-> FALSE]
  ELSE IF r.panicked
  THEN [db |-> d, value |-> r.value, executed |-> {slot}, panicked |-> TRUE]
  ELSE [db |-> Store(d, slot, r), value |-> r.value, executed |-> {slot}, panicked |-> FALSE]

\* db.source_index(key) and db.ast(key)
ReadSourceIndex(d, key) == Read(d, <<"source_index", key>>, source_index(d, key))
ReadAst(d, key) == Read(d, <<"ast", key>>, ast(d, key))

\* db.diagnostics(key) and db.semantic_tokens(key): both read source_index(key), then
\* ast(key); validating the memo brings these two up to date first
ReadDerived(d, q, key) ==
  LET slot == <<q, key>>
      r1 == ReadSourceIndex(d, key)
      r2 == ReadAst(r1.db, key)
      d2 == r2.db
      value == IF q = "diagnostics" THEN diagnostics(r1.value, r2.value)
               ELSE semantic_tokens(r1.value, r2.value)
      r == [value |-> value,
            deps |-> {<<"source_index", key>>, <<"ast", key>>},
            panicked |-> FALSE]
      top == Read(d2, slot, r)
  IN  IF MemoFresh(d, slot)
      THEN [db |-> d, value |-> d.memo[slot].val.value, executed |-> {}, panicked |-> FALSE]
      ELSE IF r1.panicked \/ r2.panicked
      THEN [db |-> d, value |-> <<>>, executed |-> r1.executed \cup r2.executed,
            panicked |-> TRUE]
      ELSE [top EXCEPT !.executed = @ \cup r1.executed \cup r2.executed]

ReadDiagnostics(d, key) == ReadDerived(d, "diagnostics", key)
ReadSemanticTokens(d, key) == ReadDerived(d, "semantic_tokens", key)

(***************************************************************************)
(* Results and errors                                                      *)
(***************************************************************************)
Ok == [type |-> "Ok"]
AlreadyOpenError(uri) == [type |-> "AlreadyOpenError", uri |-> uri]
NotYetOpenedError(uri) == [type |-> "NotYetOpenedError", uri |-> uri]
\* EditError::NotYetOpened(#[from] NotYetOpenedError)
EditNotYetOpened(error) == [type |-> "EditError::NotYetOpened", error |-> error]
IncrementalSync(uri, version) ==
  [type |-> "EditError::IncrementalSync", uri |-> uri, version |-> version]

(***************************************************************************)
(* Database::open_document, edit_document, close_document                  *)
(***************************************************************************)
\* open_document that validates first and drops the text of an already open document
OpenValidateFirst(d, uri, text) ==
  IF uri \in d.opened_files.value
  THEN [db |-> d, result |-> AlreadyOpenError(uri)]
  ELSE [db |-> set_opened_files(set_source_text(d, uri, text),
                                d.opened_files.value \cup {uri}),
        result |-> Ok]

\* open_document that reports no error for an already open document
OpenAlwaysOk(d, uri, text) ==
  LET d1 == set_source_text(d, uri, text)
  IN  [db |-> set_opened_files(d1, d1.opened_files.value \cup {uri}), result |-> Ok]

\* open_document that writes an open set holding the opened URI alone
OpenOpensOnly(d, uri, text) ==
  LET d1 == set_source_text(d, uri, text)
      files == d1.opened_files.value
  IN  IF uri \in files
      THEN [db |-> d1, result |-> AlreadyOpenError(uri)]
      ELSE [db |-> set_opened_files(d1, {uri}), result |-> Ok]

open_document(d, uri, text) ==
  LET d1 == set_source_text(d, uri, text)
      files == d1.opened_files.value
  IN  IF uri \in files
      THEN [db |-> d1, result |-> AlreadyOpenError(uri)]
      ELSE [db |-> set_opened_files(d1, files \cup {uri}), result |-> Ok]

\* edit_document that forgets to write the enlarged open set back
EditNoInsert(d, uri, text) ==
  LET d1 == set_source_text(d, uri, text)
  IN  IF uri \notin d1.opened_files.value
      THEN [db |-> d1, result |-> NotYetOpenedError(uri)]
      ELSE [db |-> d1, result |-> Ok]

\* edit_document with the membership test inverted
EditInvertedTest(d, uri, text) ==
  LET d1 == set_source_text(d, uri, text)
      files == d1.opened_files.value
  IN  IF uri \in files
      THEN [db |-> set_opened_files(d1, files \cup {uri}), result |-> NotYetOpenedError(uri)]
      ELSE [db |-> d1, result |-> Ok]

\* edit_document whose corrective insert forgets the other open URIs
EditOpensOnly(d, uri, text) ==
  LET d1 == set_source_text(d, uri, text)
      files == d1.opened_files.value
  IN  IF uri \notin files
      THEN [db |-> set_opened_files(d1, {uri}), result |-> NotYetOpenedError(uri)]
      ELSE [db |-> d1, result |-> Ok]

edit_document(d, uri, text) ==
  LET d1 == set_source_text(d, uri, text)
      files == d1.opened_files.value
  IN  IF uri \notin files
      THEN [db |-> set_opened_files(d1, files \cup {uri}), result |-> NotYetOpenedError(uri)]
      ELSE [db |-> d1, result |-> Ok]

\* close_document that empties the whole open set
CloseClearsAll(d, uri) ==
  LET d1 == set_source_text(d, uri, "")
      files == d1.opened_files.value
  IN  IF uri \notin files
      THEN [db |-> d1, result |-> NotYetOpenedError(uri)]
      ELSE [db |-> set_opened_files(d1, {}), result |-> Ok]

\* close_document that reports no error for a document that is not open
CloseAlwaysOk(d, uri) ==
  LET d1 == set_source_text(d, uri, "")
  IN  [db |-> set_opened_files(d1, d1.opened_files.value \ {uri}), result |-> Ok]

\* close_document that empties the text and leaves the URI in the open set
CloseKeepsOpen(d, uri) ==
  LET d1 == set_source_text(d, uri, "")
      files == d1.opened_files.value
  IN  IF uri \notin files
      THEN [db |-> d1, result |-> NotYetOpenedError(uri)]
      ELSE [db |-> set_opened_files(d1, files), result |-> Ok]

\* close_document that leaves the text in place
CloseKeepsText(d, uri) ==
  LET files == d.opened_files.value
  IN  IF uri \notin files
      THEN [db |-> d, result |-> NotYetOpenedError(uri)]
      ELSE [db |-> set_opened_files(d, files \ {uri}), result |-> Ok]

close_document(d, uri) ==
  LET d1 == set_source_text(d, uri, "")
      files == d1.opened_files.value
  IN  IF uri \notin files
      THEN [db |-> d1, result |-> NotYetOpenedError(uri)]
      ELSE [db |-> set_opened_files(d1, files \ {uri}), result |-> Ok]

(***************************************************************************)
(* Processable::process for the request types                              *)
(***************************************************************************)
\* TextDocumentContentChangeEvent
ChangeEvent(range, range_length, text) ==
  [range |-> range, range_length |-> range_length, text |-> text]

ProcessDidOpen(d, params) == open_document(d, params.uri, params.text)

\* process that writes the popped text before it looks at the shape of the batch
ProcessDidChangeWriteFirst(d, params) ==
  LET changes == params.content_changes
      n == Len(changes)
  IN  IF n = 0 THEN [db |-> d, result |-> IncrementalSync(params.uri, params.version)]
      ELSE IF ~changes[n].range.some /\ ~changes[n].range_length.some /\ n = 1
      THEN LET r == edit_document(d, params.uri, changes[n].text)
           IN  [db |-> r.db,
                result |-> IF r.result = Ok THEN Ok ELSE EditNotYetOpened(r.result)]
      ELSE [db |-> set_source_text(d, params.uri, changes[n].text),
            result |-> IncrementalSync(params.uri, params.version)]

\* process that does not test whether the popped change was the only one
ProcessDidChangeLastWins(d, params) ==
  LET changes == params.content_changes
      n == Len(changes)
  IN  IF n > 0 /\ ~changes[n].range.some /\ ~changes[n].range_length.some
      THEN LET r == edit_document(d, params.uri, changes[n].text)
           IN  [db |-> r.db,
                result |-> IF r.result = Ok THEN Ok ELSE EditNotYetOpened(r.result)]
      ELSE [db |-> d, result |-> IncrementalSync(params.uri, params.version)]

\* process that tests the range of the popped change and not its range_length
ProcessDidChangeIgnoresLength(d, params) ==
  LET changes == params.content_changes
      n == Len(changes)
  IN  IF n = 1 /\ ~changes[n].range.some
      THEN LET r == edit_document(d, params.uri, changes[n].text)
           IN  [db |-> r.db,
                result |-> IF r.result = Ok THEN Ok ELSE EditNotYetOpened(r.result)]
      ELSE [db |-> d, result |-> IncrementalSync(params.uri, params.version)]

\* process that looks the URI up in the open set before it looks at the batch
ProcessDidChangeOpensFirst(d, params) ==
  LET changes == params.content_changes
      n == Len(changes)
      files == d.opened_files.value
  IN  IF n = 1 /\ ~changes[n].range.some /\ ~changes[n].range_length.some
      THEN LET r == edit_document(d, params.uri, changes[n].text)
           IN  [db |-> r.db,
                result |-> IF r.result = Ok THEN Ok ELSE EditNotYetOpened(r.result)]
      ELSE IF params.uri \notin files
      THEN [db |-> set_opened_files(d, files \cup {params.uri}),
            result |-> EditNotYetOpened(NotYetOpenedError(params.uri))]
      ELSE [db |-> d, result |-> IncrementalSync(params.uri, params.version)]

ProcessDidChange(d, params) ==
  LET changes == params.content_changes
      n == Len(changes)
      popped == IF n = 0 THEN None ELSE Some(changes[n])
      rest == IF n = 0 THEN <<>> ELSE SubSeq(changes, 1, n - 1)
  IN  IF /\ popped.some
         /\ ~popped.val.range.some
         /\ ~popped.val.range_length.some
         /\ rest = <<>>
      THEN LET r == edit_document(d, params.uri, popped.val.text)
           IN  [db |-> r.db,
                result |-> IF r.result = Ok THEN Ok ELSE EditNotYetOpened(r.result)]
      ELSE [db |-> d, result |-> IncrementalSync(params.uri, params.version)]

ProcessDidClose(d, params) == close_document(d, params.uri)

ProcessDiagnosticsRequest(d, uri) == ReadDiagnostics(d, uri)

ProcessTokensRequest(d, uri) == ReadSemanticTokens(d, uri)

(***************************************************************************)
(* The requests the model submits                                          *)
(***************************************************************************)
SampleRange == Range(Position(0, 0), Position(0, 3))
SampleRangeLength == 3

\* the texts that open requests carry
RequestTexts == {BadText, HelloText}

FullChange(t) == ChangeEvent(None, None, t)
RangedChange(t) == ChangeEvent(Some(SampleRange), None, t)
LengthChange(t) == ChangeEvent(None, Some(SampleRangeLength), t)

RECURSIVE Batches(_, _)
\* the batches of at most n changes drawn from events
Batches(events, n) ==
  IF n = 0 THEN {<<>>}
  ELSE Batches(events, n - 1)
       \cup { Append(b, e) : b \in {x \in Batches(events, n - 1) : Len(x) = n - 1},
                             e \in events }

(***************************************************************************)
(* The state machine: one step is the handling of one request by the       *)
(* worker that owns the database (Request::handle): the request is         *)
(* processed and its result is sent as the reply.  `pre` keeps what the    *)
(* store held when the request arrived; lastWrite keeps, per URI, the last *)
(* write that was not refused as incremental sync.                         *)
(***************************************************************************)
NoWrite == [kind |-> "none"]
Write(kind, text) == [kind |-> kind, text |-> text]

\* a handler task that has not started, and the oneshot channel of a task that has none
NotSpawned == [pc |-> "idle"]
NoChannel == [state |-> "none"]
NothingReturned == [op |-> "none"]
\* no walk was made yet
NoOutput == [of |-> "none"]

Snapshot(memoized) ==
  [opened_files |-> opened_files.value,
   source_text |-> [u \in Uri |-> IF source_text[u].some
                                  THEN Some(source_text[u].val.value) ELSE None],
   memoized |-> memoized]

Commit(d) ==
  /\ revision' = d.revision
  /\ opened_files' = d.opened_files
  /\ source_text' = d.source_text
  /\ memo' = d.memo

InitState ==
  /\ revision = DatabaseDefault.revision
  /\ opened_files = DatabaseDefault.opened_files
  /\ source_text = DatabaseDefault.source_text
  /\ memo = DatabaseDefault.memo
  /\ panicked = FALSE
  /\ handled = 0
  /\ request = [op |-> "none"]
  /\ reply = [type |-> "none"]
  /\ pre = [opened_files |-> {}, source_text |-> [u \in Uri |-> None], memoized |-> None]
  /\ lastWrite = [u \in Uri |-> NoWrite]
  /\ executed = {}
  /\ worker = "running"
  /\ buffer = <<>>
  /\ waiters = <<>>
  /\ current = None
  /\ tasks = [c \in 1..MaxTasks |-> NotSpawned]
  /\ oneshot = [c \in 1..MaxTasks |-> NoChannel]
  /\ enqueued = <<>>
  /\ applied = <<>>
  /\ returned = NothingReturned
  /\ tx = "alive"

\* the database and the actor at their start; no walk is looked at alone
Init ==
  /\ InitState
  /\ root = EmptyTree
  /\ text_index = IndexNew(EmptyText)
  /\ absolute = <<>>
  /\ output = NoOutput
  /\ first_run = None

Mutation(req, r, write) ==
  /\ ~panicked
  /\ Commit(r.db)
  /\ handled' = handled + 1
  /\ request' = req
  /\ reply' = r.result
  /\ pre' = Snapshot(None)
  /\ lastWrite' = IF write = NoWrite THEN lastWrite ELSE [lastWrite EXCEPT ![req.uri] = write]
  /\ executed' = {}
  /\ UNCHANGED panicked
  /\ UNCHANGED walkVars

DidOpen(u, t) ==
  LET req == [op |-> "open", uri |-> u, text |-> t]
  IN  Mutation(req, ProcessDidOpen(Db, req), Write("open", t))

DidChange(u, v, b) ==
  LET req == [op |-> "change", uri |-> u, version |-> v, content_changes |-> b]
      r == ProcessDidChange(Db, req)
  IN  Mutation(req, r,
               IF r.result.type = "EditError::IncrementalSync" THEN NoWrite
               ELSE Write("edit", IF Len(b) = 1 THEN b[1].text ELSE "?"))

DidClose(u) ==
  LET req == [op |-> "close", uri |-> u]
  IN  Mutation(req, ProcessDidClose(Db, req), Write("close", ""))

Query(req, r) ==
  /\ ~panicked
  /\ Commit(r.db)
  /\ handled' = handled + 1
  /\ panicked' = r.panicked
  /\ request' = req
  /\ reply' = IF r.panicked THEN [type |-> "panic"] ELSE [type |-> "Value", value |-> r.value]
  /\ pre' = Snapshot(IF memo[<<req.op, req.uri>>].some
                      THEN Some(memo[<<req.op, req.uri>>].val.value) ELSE None)
  /\ executed' = r.executed
  /\ UNCHANGED lastWrite
  /\ UNCHANGED walkVars

GetDiagnostics(u) ==
  Query([op |-> "diagnostics", uri |-> u], ProcessDiagnosticsRequest(Db, u))

GetSemanticTokens(u) ==
  Query([op |-> "semantic_tokens", uri |-> u], ProcessTokensRequest(Db, u))

(***************************************************************************)
(* Spec: every kind of request, on two documents.                          *)
(***************************************************************************)
StoreVersions == {2}
StoreBatches == {<<>>, <<FullChange(HelloText)>>, <<RangedChange(BadText)>>}

Next ==
  /\ handled < MaxRequests
  /\ \/ \E u \in Uri, t \in RequestTexts : DidOpen(u, t)
     \/ \E u \in Uri, v \in StoreVersions, b \in StoreBatches : DidChange(u, v, b)
     \/ \E u \in Uri : DidClose(u)
     \/ \E u \in Uri : GetDiagnostics(u)
     \/ \E u \in Uri : GetSemanticTokens(u)
  /\ UNCHANGED actorVars

Spec == Init /\ [][Next]_vars

(***************************************************************************)
(* SpecChange: the shapes of a change batch, between opens and closes.     *)
(***************************************************************************)
ChangeVersions == {1, 2}
ChangeEvents ==
  {FullChange(HelloText), FullChange(BadText), RangedChange(BadText), LengthChange(BadText)}
ChangeBatches == Batches(ChangeEvents, 2)

NextChange ==
  /\ handled < MaxChangeRequests
  /\ \/ \E u \in Uri : DidOpen(u, BadText)
     \/ \E u \in Uri, v \in ChangeVersions, b \in ChangeBatches : DidChange(u, v, b)
     \/ \E u \in Uri : DidClose(u)
  /\ UNCHANGED actorVars

SpecChange == Init /\ [][NextChange]_vars

(***************************************************************************)
(* SpecLifecycle: a client that keeps to the protocol.  It opens a         *)
(* document that it has not open, edits and closes a document that it has  *)
(* open, and asks for diagnostics and tokens at any time; lastWrite[u] is  *)
(* what it did last with u.                                                *)
(***************************************************************************)
LifecycleTexts == {HelloText, MultiText}
ClientHasOpen(u) == lastWrite[u].kind \in {"open", "edit"}

NextLifecycle ==
  /\ handled < MaxLifecycleRequests
  /\ \/ \E u \in Uri, t \in LifecycleTexts : ~ClientHasOpen(u) /\ DidOpen(u, t)
     \/ \E u \in Uri, t \in LifecycleTexts :
          ClientHasOpen(u) /\ DidChange(u, 2, <<FullChange(t)>>)
     \/ \E u \in Uri : ClientHasOpen(u) /\ DidClose(u)
     \/ \E u \in Uri : GetDiagnostics(u)
     \/ \E u \in Uri : GetSemanticTokens(u)
  /\ UNCHANGED actorVars

SpecLifecycle == Init /\ [][NextLifecycle]_vars

(***************************************************************************)
(* The Request Actor.  State::new makes an mpsc channel of capacity 1 and  *)
(* spawns the worker thread, which owns the Database and loops: receive a  *)
(* request, process it, send the result on the request's oneshot channel.  *)
(* State::process makes the oneshot channel, sends the request (suspended  *)
(* while the channel is full) and awaits the reply.  The callers are the   *)
(* handler tasks of lsp.rs.                                                *)
(***************************************************************************)
\* mpsc::channel::<BoxedRequest>(1)
Capacity == 1

AsyncErrorSend == [type |-> "AsyncError::Send"]
AsyncErrorRecv == [type |-> "AsyncError::Recv"]
OpErrorAsync(error) == [type |-> "OpError::Async", error |-> error]
OpErrorOp(error) == [type |-> "OpError::Op", error |-> error]

\* a message type that OpError decides by itself: every OpError is an Error
RECURSIVE MessageTypeOpErrorIsError(_)
MessageTypeOpErrorIsError(error) ==
  CASE error.type \in {"AsyncError::Send", "AsyncError::Recv"} -> "Error"
    [] error.type \in {"OpError::Async", "OpError::Op"} -> "Error"
    [] error.type \in {"AlreadyOpenError", "NotYetOpenedError"} -> "Warning"
    [] error.type = "EditError::NotYetOpened" -> MessageTypeOpErrorIsError(error.error)
    [] error.type = "EditError::IncrementalSync" -> "Error"

RECURSIVE message_type(_)
message_type(error) ==
  CASE error.type \in {"AsyncError::Send", "AsyncError::Recv"} -> "Error"
    [] error.type \in {"OpError::Async", "OpError::Op"} -> message_type(error.error)
    [] error.type \in {"AlreadyOpenError", "NotYetOpenedError"} -> "Warning"
    [] error.type = "EditError::NotYetOpened" -> message_type(error.error)
    [] error.type = "EditError::IncrementalSync" -> "Error"

\* the handlers of lsp.rs, each with the parameters of its first State operation
did_open(u, t) == [kind |-> "did_open", params |-> [op |-> "open", uri |-> u, text |-> t]]
did_change(u, v, b) ==
  [kind |-> "did_change",
   params |-> [op |-> "change", uri |-> u, version |-> v, content_changes |-> b]]
did_close(u) == [kind |-> "did_close", params |-> [op |-> "close", uri |-> u]]
semantic_tokens_full(u) ==
  [kind |-> "semantic_tokens_full", params |-> [op |-> "semantic_tokens", uri |-> u]]

\* did_open and did_change call get_diagnostics after their first operation
Steps(handler) == IF handler.kind \in {"did_open", "did_change"} THEN 2 ELSE 1
RequestOf(handler, step) ==
  IF step = 1 THEN handler.params ELSE [op |-> "diagnostics", uri |-> handler.params.uri]

IsOpError(op) == op \in {"open", "change", "close"}
\* what a State operation returns for the value the worker sent
OpResult(op, processed) ==
  IF IsOpError(op) /\ processed # Ok THEN OpErrorOp(processed) ELSE processed
\* a failure of State::process handed on without the OpError wrapper
AsyncFailureBare(op, error) == error

\* what a State operation returns when State::process failed
AsyncFailure(op, error) == IF IsOpError(op) THEN OpErrorAsync(error) ELSE error
IsErr(result) == result.type \notin {"Ok", "Value"}

OpenChannel == [state |-> "open"]
Sent(value) == [state |-> "sent", value |-> value]
SenderDropped == [state |-> "sender_dropped"]
ReceiverDropped == [state |-> "receiver_dropped"]

Remove(seq, c) == SelectSeq(seq, LAMBDA x : x # c)
Message(c, t) == [task |-> c, step |-> t.step, params |-> RequestOf(t.handler, t.step)]
Pending(c) == tasks[c].pc \in {"send", "recv"}
OpOf(c) == RequestOf(tasks[c].handler, tasks[c].step).op

\* the handler after a State operation returned result: the notification handlers unwrap
\* it, did_open and did_change go on to get_diagnostics, semantic_tokens_full returns
Returned(c, result) ==
  LET t == tasks[c]
  IN  IF IsErr(result)
      THEN [pc |-> IF t.handler.kind = "semantic_tokens_full" THEN "done" ELSE "panicked"]
      ELSE IF t.step < Steps(t.handler)
      THEN [t EXCEPT !.step = t.step + 1, !.pc = "send"]
      ELSE [pc |-> "done"]

\* a task at pc in the step-th State operation of its handler
Task(pc, t) == [pc |-> pc, handler |-> t.handler, step |-> t.step]

\* a send that never suspends the sender
SendUnbounded(c, t) ==
  /\ tasks' = [tasks EXCEPT ![c] = Task("recv", t)]
  /\ buffer' = Append(buffer, Message(c, t))
  /\ enqueued' = Append(enqueued, Message(c, t))
  /\ UNCHANGED waiters

\* self.tx.send(..).await of task c in State::process: the request is enqueued at once
\* if the channel is open, has room and no sender waits; else the sender is suspended
Send(c, t) ==
  IF worker = "running" /\ waiters = <<>> /\ Len(buffer) < Capacity
  THEN /\ tasks' = [tasks EXCEPT ![c] = Task("recv", t)]
       /\ buffer' = Append(buffer, Message(c, t))
       /\ enqueued' = Append(enqueued, Message(c, t))
       /\ UNCHANGED waiters
  ELSE /\ tasks' = [tasks EXCEPT ![c] = Task("send", t)]
       /\ waiters' = Append(waiters, c)
       /\ UNCHANGED <<buffer, enqueued>>

\* the caller's side of the end of a State operation
Return(c, result) ==
  LET t == Returned(c, result)
  IN  /\ returned' = [task |-> c, op |-> OpOf(c), result |-> result]
      /\ oneshot' = [oneshot EXCEPT ![c] = IF t.pc = "send" THEN OpenChannel ELSE NoChannel]
      /\ IF t.pc = "send"
         THEN Send(c, t)
         ELSE /\ tasks' = [tasks EXCEPT ![c] = t]
              /\ waiters' = Remove(waiters, c)
              /\ UNCHANGED <<buffer, enqueued>>

\* a handler is called, which needs the State: it starts its first State operation
Spawn(c, handler) ==
  /\ tx = "alive"
  /\ tasks[c].pc = "idle"
  /\ Send(c, [pc |-> "send", handler |-> handler, step |-> 1])
  /\ oneshot' = [oneshot EXCEPT ![c] = OpenChannel]
  /\ UNCHANGED <<worker, current, applied, returned>>
  /\ UNCHANGED <<storeVars, walkVars, tx>>

\* a send that completes for the suspended sender while its request is lost
EnqueueLost ==
  /\ worker = "running"
  /\ waiters # <<>>
  /\ Len(buffer) < Capacity
  /\ tasks' = [tasks EXCEPT ![Head(waiters)].pc = "recv"]
  /\ waiters' = Tail(waiters)
  /\ UNCHANGED <<worker, buffer, current, oneshot, enqueued, applied, returned>>
  /\ UNCHANGED <<storeVars, walkVars, tx>>

\* self.tx.send(..).await completes for the suspended sender that waited longest
Enqueue ==
  /\ worker = "running"
  /\ waiters # <<>>
  /\ Len(buffer) < Capacity
  /\ LET c == Head(waiters)
     IN  /\ buffer' = Append(buffer, Message(c, tasks[c]))
         /\ enqueued' = Append(enqueued, Message(c, tasks[c]))
         /\ tasks' = [tasks EXCEPT ![c].pc = "recv"]
  /\ waiters' = Tail(waiters)
  /\ UNCHANGED <<worker, current, oneshot, applied, returned>>
  /\ UNCHANGED <<storeVars, walkVars, tx>>

\* self.tx.send(..).await? when the receiver is gone: AsyncError::Send
SendFail(c) ==
  /\ worker = "dead"
  /\ tasks[c].pc = "send"
  /\ Return(c, AsyncFailure(OpOf(c), AsyncErrorSend))
  /\ UNCHANGED <<worker, current, applied>>
  /\ UNCHANGED <<storeVars, walkVars, tx>>

\* a loop that receives the next request without finishing the one in hand
RecvEager ==
  /\ worker = "running"
  /\ buffer # <<>>
  /\ current' = Some([request |-> Head(buffer), result |-> None])
  /\ buffer' = Tail(buffer)
  /\ UNCHANGED <<worker, waiters, tasks, oneshot, enqueued, applied, returned>>
  /\ UNCHANGED <<storeVars, walkVars, tx>>

\* block_on(rx.recv()) returns Some(request)
Recv ==
  /\ worker = "running"
  /\ current = None
  /\ buffer # <<>>
  /\ current' = Some([request |-> Head(buffer), result |-> None])
  /\ buffer' = Tail(buffer)
  /\ UNCHANGED <<worker, waiters, tasks, oneshot, enqueued, applied, returned>>
  /\ UNCHANGED <<storeVars, walkVars, tx>>

ApplyRequest(req) ==
  \/ req.op = "open" /\ DidOpen(req.uri, req.text)
  \/ req.op = "change" /\ DidChange(req.uri, req.version, req.content_changes)
  \/ req.op = "close" /\ DidClose(req.uri)
  \/ req.op = "diagnostics" /\ GetDiagnostics(req.uri)
  \/ req.op = "semantic_tokens" /\ GetSemanticTokens(req.uri)

\* processing that answers a mutation Ok without applying it to the store
ProcessUnapplied ==
  /\ worker = "running"
  /\ current.some
  /\ ~current.val.result.some
  /\ IF IsOpError(current.val.request.params.op)
     THEN /\ request' = current.val.request.params
          /\ reply' = Ok
          /\ handled' = handled + 1
          /\ UNCHANGED <<revision, opened_files, source_text, memo, panicked, pre,
                         lastWrite, executed>>
          /\ UNCHANGED walkVars
     ELSE ApplyRequest(current.val.request.params)
  /\ current' = Some([current.val EXCEPT !.result = Some(reply')])
  /\ applied' = Append(applied, current.val.request)
  /\ UNCHANGED <<worker, buffer, waiters, tasks, oneshot, enqueued, returned, tx>>

\* params.process(&mut db)
Process ==
  /\ worker = "running"
  /\ current.some
  /\ ~current.val.result.some
  /\ ApplyRequest(current.val.request.params)
  /\ current' = Some([current.val EXCEPT !.result = Some(reply')])
  /\ applied' = Append(applied, current.val.request)
  /\ UNCHANGED <<worker, buffer, waiters, tasks, oneshot, enqueued, returned, tx>>

\* tx.send(..).unwrap(): a reply whose receiver is gone makes the worker fail
ReplyUnwrap ==
  /\ worker = "running"
  /\ current.some
  /\ current.val.result.some
  /\ oneshot' = [oneshot EXCEPT ![current.val.request.task] =
                   IF @ = OpenChannel THEN Sent(current.val.result.val) ELSE @]
  /\ worker' = IF oneshot[current.val.request.task] = OpenChannel THEN "running" ELSE "dead"
  /\ current' = None
  /\ UNCHANGED <<buffer, waiters, tasks, enqueued, applied, returned>>
  /\ UNCHANGED <<storeVars, walkVars, tx>>

\* let _ = tx.send(..): the result reaches the oneshot channel unless its receiver is gone
Reply ==
  /\ worker = "running"
  /\ current.some
  /\ current.val.result.some
  /\ oneshot' = [oneshot EXCEPT ![current.val.request.task] =
                   IF @ = OpenChannel THEN Sent(current.val.result.val) ELSE @]
  /\ current' = None
  /\ UNCHANGED <<worker, buffer, waiters, tasks, enqueued, applied, returned>>
  /\ UNCHANGED <<storeVars, walkVars, tx>>

\* a failure of the worker that leaves the oneshot senders of its requests alive
PanicKeepsSenders ==
  /\ worker = "running"
  /\ current.some
  /\ ~current.val.result.some
  /\ worker' = "dead"
  /\ current' = None
  /\ buffer' = <<>>
  /\ UNCHANGED <<oneshot, waiters, tasks, enqueued, applied, returned>>
  /\ UNCHANGED <<storeVars, walkVars, tx>>

\* processing panics (an unwrap under ast or via_index fails): the thread unwinds and
\* drops the oneshot sender in hand, the mpsc receiver and the requests still buffered
Panic ==
  /\ worker = "running"
  /\ current.some
  /\ ~current.val.result.some
  /\ worker' = "dead"
  /\ current' = None
  /\ buffer' = <<>>
  /\ LET lost == {current.val.request.task} \cup {buffer[i].task : i \in 1..Len(buffer)}
     IN  oneshot' = [c \in 1..MaxTasks |->
                       IF c \in lost /\ oneshot[c] = OpenChannel
                       THEN SenderDropped ELSE oneshot[c]]
  /\ UNCHANGED <<waiters, tasks, enqueued, applied, returned>>
  /\ UNCHANGED <<storeVars, walkVars, tx>>

\* rx.await returns the value the worker sent
Await(c) ==
  /\ tasks[c].pc = "recv"
  /\ oneshot[c].state = "sent"
  /\ Return(c, OpResult(OpOf(c), oneshot[c].value))
  /\ UNCHANGED <<worker, current, applied>>
  /\ UNCHANGED <<storeVars, walkVars, tx>>

\* rx.await? when the sender was dropped without a value: AsyncError::Recv
RecvFail(c) ==
  /\ tasks[c].pc = "recv"
  /\ oneshot[c] = SenderDropped
  /\ Return(c, AsyncFailure(OpOf(c), AsyncErrorRecv))
  /\ UNCHANGED <<worker, current, applied>>
  /\ UNCHANGED <<storeVars, walkVars, tx>>

\* the future of a State operation is dropped while it is suspended: a request not yet
\* sent is dropped with it, of one already sent only the oneshot receiver is
Drop(c) ==
  /\ Pending(c)
  /\ tasks' = [tasks EXCEPT ![c] = [pc |-> "dropped"]]
  /\ oneshot' = [oneshot EXCEPT ![c] = IF tasks[c].pc = "send" THEN NoChannel
                                       ELSE ReceiverDropped]
  /\ waiters' = Remove(waiters, c)
  /\ UNCHANGED <<worker, buffer, current, enqueued, applied, returned>>
  /\ UNCHANGED <<storeVars, walkVars, tx>>

\* the messages of the client, one per task, which the server may take up in any order
ActorUri == "file:///tmp/foo.qn"
ActorHandlers ==
  <<{did_open(ActorUri, HelloText)},
    {did_change(ActorUri, 2, <<FullChange(BadText)>>)},
    {semantic_tokens_full(ActorUri), did_close(ActorUri)}>>
HandlersOf(c) == ActorHandlers[((c - 1) % Len(ActorHandlers)) + 1]

NextActor ==
  \/ \E c \in 1..MaxTasks : \E handler \in HandlersOf(c) : Spawn(c, handler)
  \/ Enqueue
  \/ \E c \in 1..MaxTasks : SendFail(c)
  \/ Recv
  \/ Process
  \/ Reply
  \/ Panic
  \/ \E c \in 1..MaxTasks : Await(c)
  \/ \E c \in 1..MaxTasks : RecvFail(c)
  \/ \E c \in 1..MaxTasks : Drop(c)

SpecActor == Init /\ [][NextActor]_vars

\* the worker is a thread of its own and the callers are tasks woken by their channels:
\* a step of the worker loop, the completion of a suspended send and the completion of
\* an await whose channel is ready are not postponed forever
\* the request the worker has received and not yet processed
InHand == IF current.some /\ ~current.val.result.some THEN <<current.val.request>> ELSE <<>>
\* the steps of Process, which alone extends applied, told by that effect: Process is
\* enabled whenever a request is in hand
Processed == worker = "running" /\ InHand # <<>> /\ applied' = applied \o InHand
CallerStep == \E c \in 1..MaxTasks : Await(c) \/ RecvFail(c) \/ SendFail(c)
Fairness ==
  /\ WF_vars(Recv \/ Reply) /\ WF_applied(Processed)
  /\ WF_vars(Enqueue)
  /\ WF_vars(CallerStep)

NextActorFair ==
  \/ \E c \in 1..MaxFairTasks : \E handler \in HandlersOf(c) : Spawn(c, handler)
  \/ Enqueue
  \/ \E c \in 1..MaxFairTasks : SendFail(c)
  \/ Recv
  \/ Process
  \/ Reply
  \/ Panic
  \/ \E c \in 1..MaxFairTasks : Await(c)
  \/ \E c \in 1..MaxFairTasks : RecvFail(c)
  \/ \E c \in 1..MaxFairTasks : Drop(c)

SpecActorFair == Init /\ [][NextActorFair]_vars /\ Fairness

(***************************************************************************)
(* SpecShutdown: the end of the server.  The State, and with it the only   *)
(* Sender of the channel, is dropped once no State operation is in         *)
(* progress; requests whose callers were dropped may still be in the       *)
(* channel.  rx.recv() gives the worker the buffered requests and then     *)
(* None, which ends the `while let` loop of State::new.                    *)
(***************************************************************************)
\* the last Arc<State> is dropped: the Sender goes with it
DropState ==
  /\ tx = "alive"
  /\ \A c \in 1..MaxTasks : ~Pending(c)
  /\ tx' = "dropped"
  /\ UNCHANGED <<worker, buffer, waiters, current, tasks, oneshot, enqueued, applied,
                 returned>>
  /\ UNCHANGED <<storeVars, walkVars>>

\* a loop that ends as soon as it finds the channel empty
ExitWhenIdle ==
  /\ worker = "running"
  /\ current = None
  /\ buffer = <<>>
  /\ worker' = "exited"
  /\ UNCHANGED <<buffer, waiters, current, tasks, oneshot, enqueued, applied, returned>>
  /\ UNCHANGED <<storeVars, walkVars, tx>>

\* block_on(rx.recv()) returns None: the channel is closed and empty, the loop ends
Exit ==
  /\ worker = "running"
  /\ current = None
  /\ buffer = <<>>
  /\ tx = "dropped"
  /\ worker' = "exited"
  /\ UNCHANGED <<buffer, waiters, current, tasks, oneshot, enqueued, applied, returned>>
  /\ UNCHANGED <<storeVars, walkVars, tx>>

NextShutdown ==
  \/ \E c \in 1..MaxFairTasks : \E handler \in HandlersOf(c) : Spawn(c, handler)
  \/ Enqueue
  \/ \E c \in 1..MaxFairTasks : SendFail(c)
  \/ Recv
  \/ Process
  \/ Reply
  \/ Panic
  \/ \E c \in 1..MaxFairTasks : Await(c)
  \/ \E c \in 1..MaxFairTasks : RecvFail(c)
  \/ \E c \in 1..MaxFairTasks : Drop(c)
  \/ DropState
  \/ Exit

SpecShutdown == Init /\ [][NextShutdown]_vars /\ Fairness /\ WF_vars(Exit)

(***************************************************************************)
(* The tree walks and the delta pass taken alone.  The trees are the ones  *)
(* a parser can hand over: every shape of at most MaxNodes nodes, each     *)
(* node plain, an error node or a missing node, laid out on one line; and  *)
(* every comment, string or identifier between two character boundaries of *)
(* WideText.  The token lists are the lists in document order of at most   *)
(* MaxTokens tokens.                                                       *)
(***************************************************************************)
Marks == {"plain", "error", "missing"}

RECURSIVE ShapesOf(_)
RECURSIVE ForestsOf(_)
\* the shapes of exactly n nodes, and the sequences of shapes of n nodes in all
ShapesOf(n) ==
  IF n = 0 THEN {}
  ELSE {[mark |-> m, children |-> f] : m \in Marks, f \in ForestsOf(n - 1)}
ForestsOf(n) ==
  IF n = 0 THEN {<<>>}
  ELSE UNION {{<<t>> \o f : t \in ShapesOf(k), f \in ForestsOf(n - k)} : k \in 1..n}

RECURSIVE Width(_)
RECURSIVE WidthOfAll(_, _)
\* the columns a shape takes: one per leaf, none for a missing leaf
WidthOfAll(shapes, i) ==
  IF i > Len(shapes) THEN 0 ELSE Width(shapes[i]) + WidthOfAll(shapes, i + 1)
Width(shape) ==
  IF shape.children = <<>> THEN (IF shape.mark = "missing" THEN 0 ELSE 1)
  ELSE WidthOfAll(shape.children, 1)

RECURSIVE Place(_, _)
RECURSIVE PlaceAll(_, _, _)
\* the node of a shape that starts at a column of row 0
PlaceAll(shapes, i, column) ==
  IF i > Len(shapes) THEN <<>>
  ELSE <<Place(shapes[i], column)>> \o PlaceAll(shapes, i + 1, column + Width(shapes[i]))
Place(shape, column) ==
  [kind |-> IF shape.mark = "error" THEN "ERROR"
            ELSE IF shape.children = <<>> THEN "identifier" ELSE "call",
   start |-> Point(0, column), end |-> Point(0, column + Width(shape)),
   is_error |-> shape.mark = "error", is_missing |-> shape.mark = "missing",
   children |-> PlaceAll(shape.children, 1, column)]

MarkedTrees == {Place(shape, 0) : shape \in UNION {ShapesOf(n) : n \in 1..MaxNodes}}
\* the index of the one-line text a marked tree spans
LineIndex(tree) == << [i \in 1..tree.end.column |-> "x"] >>

RECURSIVE Bytes(_, _)
\* the UTF-8 bytes of the first n characters of a line
Bytes(line, n) == IF n = 0 THEN 0 ELSE Bytes(line, n - 1) + Utf8Len(line[n])

WideIndex == IndexNew(WideText)
\* the positions between the characters of WideText, as the parser counts them
WidePoints ==
  UNION {{Point(r, Bytes(WideIndex[r + 1], n)) : n \in 0..Len(WideIndex[r + 1])} :
           r \in 0..(Len(WideIndex) - 1)}
NotAfter(p, q) == p.row < q.row \/ (p.row = q.row /\ p.column <= q.column)
TokenKinds == {"comment", "string", "identifier"}
\* the spans of a node: a start and an end that is not before it
WideSpans == {s \in WidePoints \X WidePoints : NotAfter(s[1], s[2])}
TokenTrees ==
  {Node("source_file", 0, 0, 2, 3,
        << Node(kind, s[1].row, s[1].column, s[2].row, s[2].column, <<>>) >>) :
     kind \in TokenKinds, s \in WideSpans}

\* a string and an identifier, one after the other: the second starts where the first ends
WideTriples ==
  {s \in WidePoints \X WidePoints \X WidePoints : NotAfter(s[1], s[2]) /\ NotAfter(s[2], s[3])}
TokenPairTrees ==
  {Node("source_file", 0, 0, 2, 3,
        << Node("string", s[1].row, s[1].column, s[2].row, s[2].column, <<>>),
           Node("identifier", s[2].row, s[2].column, s[3].row, s[3].column, <<>>) >>) :
     s \in WideTriples}

AbsoluteToken(line, start, length, token_type) ==
  [line |-> line, start |-> start, length |-> length, token_type |-> token_type]
AbsoluteTokens ==
  {AbsoluteToken(line, start, 1, token_type) :
     line \in 0..1, start \in 0..2, token_type \in {Comment, String, Variable}}
InDocumentOrder(ts) ==
  \A i \in 1..(Len(ts) - 1) :
     \/ ts[i].line < ts[i + 1].line
     \/ ts[i].line = ts[i + 1].line /\ ts[i].start <= ts[i + 1].start
TokenLists ==
  {ts \in UNION {[1..n -> AbsoluteTokens] : n \in 0..MaxTokens} : InDocumentOrder(ts)}

InitWalk ==
  /\ InitState
  /\ output = NoOutput
  /\ first_run = None
  /\ \/ root \in MarkedTrees /\ text_index = LineIndex(root) /\ absolute = <<>>
     \/ root \in TokenTrees /\ text_index = WideIndex /\ absolute = <<>>
     \/ root \in TokenPairTrees /\ text_index = WideIndex /\ absolute = <<>>
     \/ root = EmptyTree /\ text_index = IndexNew(EmptyText) /\ absolute \in TokenLists

\* what a function returned, and the revision of the database when it ran
WalkOutput(of, value) == [of |-> of, value |-> value, revision |-> revision]

\* diagnostics_helper(&tree.0.root_node(), &index)
Diagnose ==
  /\ output' = WalkOutput("diagnostics_helper", diagnostics_helper(root, text_index))
  /\ UNCHANGED <<root, text_index, absolute, first_run>>
  /\ UNCHANGED <<storeVars, actorVars>>

\* absolute_tokens(&tree.0.root_node(), &index)
Tokenize ==
  /\ absolute' = absolute_tokens(root, text_index)
  /\ output' = WalkOutput("absolute_tokens", absolute')
  /\ UNCHANGED <<root, text_index, first_run>>
  /\ UNCHANGED <<storeVars, actorVars>>

\* a delta pass that goes on from the last token of the run before it
RelativizeContinuing ==
  /\ output' = WalkOutput("make_relative",
                          IF first_run.some /\ absolute # <<>>
                          THEN RelativeRest(absolute, 1, absolute[Len(absolute)].line,
                                            absolute[Len(absolute)].start)
                          ELSE make_relative(absolute))
  /\ first_run' = IF first_run.some THEN first_run
                  ELSE Some([tokens |-> absolute, relative |-> output'.value,
                             revision |-> revision])
  /\ UNCHANGED <<root, text_index, absolute>>
  /\ UNCHANGED <<storeVars, actorVars>>

\* make_relative(tokens)
Relativize ==
  /\ output' = WalkOutput("make_relative", make_relative(absolute))
  /\ first_run' = IF first_run.some THEN first_run
                  ELSE Some([tokens |-> absolute, relative |-> output'.value,
                             revision |-> revision])
  /\ UNCHANGED <<root, text_index, absolute>>
  /\ UNCHANGED <<storeVars, actorVars>>

\* the worker opens a document between two walks
OpenBetweenWalks ==
  /\ ActorUri \notin opened_files.value
  /\ DidOpen(ActorUri, HelloText)
  /\ UNCHANGED actorVars

NextWalk == Diagnose \/ Tokenize \/ Relativize \/ OpenBetweenWalks

SpecWalk == InitWalk /\ [][NextWalk]_vars

(***************************************************************************)
(* What the store holds, as the claims below read it                       *)
(***************************************************************************)
IsOpen(u) == u \in opened_files.value
\* the stored text of u, None while the input was never set
StoredText(u) == IF source_text[u].some THEN Some(source_text[u].val.value) ELSE None
IsFullSync(batch) ==
  Len(batch) = 1 /\ ~batch[1].range.some /\ ~batch[1].range_length.some
IsQuery(req) == req.op \in {"diagnostics", "semantic_tokens"}

(***************************************************************************)
(* C1: after any sequence of requests, the stored text of every URI that   *)
(* was written at least once is the text of the last write to it that was  *)
(* not refused as incremental sync: the text of the open or of the         *)
(* full-text edit, the empty string after a close.                         *)
(***************************************************************************)
C1_TextIsLastAcceptedWrite ==
  \A u \in Uri : lastWrite[u].kind /= "none" => StoredText(u) = Some(lastWrite[u].text)

\* an edit refused as incremental sync, carrying another text than the stored one
C1_Witness ==
  /\ request.op = "change"
  /\ reply.type = "EditError::IncrementalSync"
  /\ Len(request.content_changes) = 1
  /\ lastWrite[request.uri].kind = "open"
  /\ request.content_changes[1].text /= lastWrite[request.uri].text

(***************************************************************************)
(* C2: right after open(u, T) the stored text of u is T and u is open,     *)
(* whether the reply was Ok or AlreadyOpen.                                *)
(***************************************************************************)
C2_OpenWritesAndOpens ==
  request.op = "open" =>
    StoredText(request.uri) = Some(request.text) /\ IsOpen(request.uri)

\* an open of an already open document that carried a new text
C2_Witness ==
  /\ request.op = "open"
  /\ reply = AlreadyOpenError(request.uri)
  /\ pre.source_text[request.uri].some
  /\ pre.source_text[request.uri].val /= request.text
  /\ StoredText(request.uri) = Some(request.text)

(***************************************************************************)
(* C3: open(u, T) replies AlreadyOpenError{u} exactly when u was open      *)
(* before the call; the open set is then unchanged and the stored text is  *)
(* T.  Otherwise it replies Ok.                                            *)
(***************************************************************************)
C3_AlreadyOpenIffWasOpen ==
  request.op = "open" =>
    LET u == request.uri
    IN  /\ reply = AlreadyOpenError(u) <=> u \in pre.opened_files
        /\ u \in pre.opened_files =>
             opened_files.value = pre.opened_files /\ StoredText(u) = Some(request.text)
        /\ u \notin pre.opened_files => reply = Ok

\* AlreadyOpen while both documents were open
C3_Witness ==
  /\ request.op = "open"
  /\ reply.type = "AlreadyOpenError"
  /\ pre.opened_files = Uri
  /\ opened_files.value = Uri

(***************************************************************************)
(* C4: a full-text edit of a URI that is not open replies NotYetOpened{u}, *)
(* and afterwards u is open and holds the text; NotYetOpened is replied    *)
(* only when u was not open before.                                        *)
(***************************************************************************)
C4_EditNotYetOpened ==
  request.op = "change" =>
    LET u == request.uri
    IN  /\ (IsFullSync(request.content_changes) /\ u \notin pre.opened_files) =>
             /\ reply = EditNotYetOpened(NotYetOpenedError(u))
             /\ IsOpen(u)
             /\ StoredText(u) = Some(request.content_changes[1].text)
        /\ reply.type = "EditError::NotYetOpened" => u \notin pre.opened_files

\* the edit of a document that was closed before: it is open again and holds the text
C4_Witness ==
  /\ request.op = "change"
  /\ reply.type = "EditError::NotYetOpened"
  /\ pre.source_text[request.uri] = Some("")
  /\ IsOpen(request.uri)
  /\ StoredText(request.uri) = Some(HelloText)

(***************************************************************************)
(* C5: a change of an open URI whose batch is one change with null range   *)
(* and null range-length replies Ok, replaces the stored text by the       *)
(* change's text and leaves the open set as it was.                        *)
(***************************************************************************)
C5_FullSyncOnOpen ==
  (/\ request.op = "change"
   /\ IsFullSync(request.content_changes)
   /\ request.uri \in pre.opened_files) =>
     /\ reply = Ok
     /\ StoredText(request.uri) = Some(request.content_changes[1].text)
     /\ opened_files.value = pre.opened_files

\* a full-text edit that replaced another text
C5_Witness ==
  /\ request.op = "change"
  /\ IsFullSync(request.content_changes)
  /\ request.uri \in pre.opened_files
  /\ pre.source_text[request.uri] = Some(BadText)
  /\ StoredText(request.uri) = Some(HelloText)
  /\ reply = Ok

(***************************************************************************)
(* C6: a change whose batch holds more than one change, or a change with a *)
(* non-null range, replies IncrementalSync with the URI and version of the *)
(* request and leaves the stored text of every URI as it was.              *)
(***************************************************************************)
C6_IncrementalSyncRejected ==
  (/\ request.op = "change"
   /\ \/ Len(request.content_changes) > 1
      \/ \E i \in 1..Len(request.content_changes) : request.content_changes[i].range.some) =>
     /\ reply = IncrementalSync(request.uri, request.version)
     /\ \A w \in Uri : StoredText(w) = pre.source_text[w]

\* two full-text changes in one batch for an open document: refused, text kept
C6_Witness ==
  /\ request.op = "change"
  /\ Len(request.content_changes) = 2
  /\ \A i \in 1..2 : ~request.content_changes[i].range.some
                     /\ ~request.content_changes[i].range_length.some
  /\ request.content_changes[2].text = HelloText
  /\ IsOpen(request.uri)
  /\ StoredText(request.uri) = Some(BadText)
  /\ reply.type = "EditError::IncrementalSync"

(***************************************************************************)
(* C7: close(u) of an open URI replies Ok, removes u and only u from the   *)
(* open set and sets the stored text of u to the empty string.             *)
(***************************************************************************)
C7_CloseOpen ==
  (request.op = "close" /\ request.uri \in pre.opened_files) =>
    /\ reply = Ok
    /\ opened_files.value = pre.opened_files \ {request.uri}
    /\ StoredText(request.uri) = Some("")

\* a close while both documents were open: the other one stays open
C7_Witness ==
  /\ request.op = "close"
  /\ pre.opened_files = Uri
  /\ opened_files.value = Uri \ {request.uri}
  /\ pre.source_text[request.uri] /= Some("")
  /\ reply = Ok

(***************************************************************************)
(* C8: close(u) of a URI that is not open replies NotYetOpenedError{u} and *)
(* leaves the open set as it was; all it does to the store is to set the   *)
(* stored text of u to the empty string.                                   *)
(***************************************************************************)
C8_CloseNotOpen ==
  (request.op = "close" /\ request.uri \notin pre.opened_files) =>
    /\ reply = NotYetOpenedError(request.uri)
    /\ opened_files.value = pre.opened_files
    /\ StoredText(request.uri) = Some("")
    /\ \A w \in Uri \ {request.uri} : StoredText(w) = pre.source_text[w]

\* a close of a never written URI while the other document is open
C8_Witness ==
  /\ request.op = "close"
  /\ reply.type = "NotYetOpenedError"
  /\ ~pre.source_text[request.uri].some
  /\ pre.opened_files /= {}
  /\ opened_files.value = pre.opened_files

(***************************************************************************)
(* C9: once u is closed, a diagnostics or semantic-tokens request for u    *)
(* is answered by the empty list: no failure, and not the value memoized   *)
(* while u was open.                                                       *)
(***************************************************************************)
C9_ClosedAnswersEmpty ==
  (IsQuery(request) /\ lastWrite[request.uri].kind = "close") =>
    reply = [type |-> "Value", value |-> <<>>]

\* the query found a non-empty memoized value of the closed document and replied <<>>
C9_Witness ==
  /\ IsQuery(request)
  /\ lastWrite[request.uri].kind = "close"
  /\ pre.memoized.some
  /\ pre.memoized.val /= <<>>
  /\ reply = [type |-> "Value", value |-> <<>>]

(***************************************************************************)
(* C10: in every state and for every URI, ast(u) and source_index(u) give  *)
(* a value exactly when u is in the open set, and when they give none,     *)
(* diagnostics(u) and semantic_tokens(u) are empty; no query fails, also   *)
(* for a URI that was never written.                                       *)
(***************************************************************************)
C10_SomeIffOpen ==
  /\ ~panicked
  /\ \A u \in Uri :
       LET index == ReadSourceIndex(Db, u)
           tree == ReadAst(Db, u)
           diags == ReadDiagnostics(Db, u)
           tokens == ReadSemanticTokens(Db, u)
       IN  /\ ~index.panicked /\ ~tree.panicked
           /\ index.value.some <=> IsOpen(u)
           /\ tree.value.some <=> IsOpen(u)
           /\ ~IsOpen(u) => /\ ~diags.panicked /\ diags.value = <<>>
                            /\ ~tokens.panicked /\ tokens.value = <<>>

\* a never written URI is queried while another document is open and memoized
C10_Witness ==
  \E u \in Uri, w \in Uri :
    /\ ~source_text[u].some
    /\ IsOpen(w)
    /\ memo[<<"diagnostics", w>>].some
    /\ memo[<<"diagnostics", w>>].val.value /= <<>>
    /\ ~ReadAst(Db, u).value.some
    /\ ~ReadSourceIndex(Db, u).value.some
    /\ ReadDiagnostics(Db, u).value = <<>>
    /\ request = [op |-> "diagnostics", uri |-> u]

(***************************************************************************)
(* Queries, as the claims below read them                                  *)
(***************************************************************************)
\* the step in which the worker handles a diagnostics or semantic-tokens request
QueryStep == IsQuery(request') /\ handled' = handled + 1
\* source_index(u) and ast(u), which diagnostics(u) and semantic_tokens(u) read
Chain(u) == {<<"source_index", u>>, <<"ast", u>>}
\* what a store without memos derives from the open set and the text of u
Scratch(d, q, u) ==
  IF q = "diagnostics"
  THEN diagnostics(source_index(d, u).value, ast(d, u).value)
  ELSE semantic_tokens(source_index(d, u).value, ast(d, u).value)
\* the value of source_index(u), and for ast(u) the tree without its identity
Observed(slot, value) ==
  IF slot[1] = "ast" /\ value.some THEN Some(value.val.tree) ELSE value
ScratchChain(d, slot) ==
  Observed(slot, IF slot[1] = "ast" THEN ast(d, slot[2]).value
                 ELSE source_index(d, slot[2]).value)
\* an input that the memo of slot read was written after revision `at`
WrittenSince(d, slot, at) ==
  d.memo[slot].some /\ \E dep \in d.memo[slot].val.deps : DepChangedAt(d, dep) > at

(***************************************************************************)
(* C11 as stated: every query answers what a derivation from scratch       *)
(* gives, and a derived value is recomputed at the first request after one *)
(* of its transitive inputs changed.  The second half, for the queried     *)
(* value: if an input read by source_index(u) or ast(u) was written after  *)
(* the memo of the query was verified, the query function runs.            *)
(***************************************************************************)
C11_RecomputedAfterInputChange ==
  [][QueryStep =>
       LET u == request'.uri
           slot == <<request'.op, u>>
       IN  (/\ memo[slot].some
            /\ \E s \in Chain(u) : WrittenSince(Db, s, memo[slot].val.verified_at))
           => slot \in executed']_vars

(***************************************************************************)
(* C11 amended: every query answers what a derivation from scratch gives;  *)
(* a request for a value verified in the current revision runs no query    *)
(* function and answers the memoized value; source_index(u) and ast(u) run *)
(* again exactly when they have no memo or an input they read was written  *)
(* since; diagnostics(u) and semantic_tokens(u) run again exactly when     *)
(* they have no memo or source_index(u) or ast(u) changed its value since  *)
(* (an index or tree that is recomputed equal, as the absent ones of a     *)
(* closed URI are, causes no recomputation).                               *)
(***************************************************************************)
C11_MemoEquivalentAndRecomputedOnChange ==
  [][QueryStep =>
       LET u == request'.uri
           slot == <<request'.op, u>>
       IN  /\ reply' = [type |-> "Value", value |-> Scratch(Db', request'.op, u)]
           /\ \A s \in Chain(u) :
                memo'[s].some /\ Observed(s, memo'[s].val.value) = ScratchChain(Db', s)
           /\ MemoFresh(Db, slot) =>
                executed' = {} /\ reply'.value = memo[slot].val.value
           /\ \A s \in Chain(u) :
                s \in executed' <=>
                  /\ ~MemoFresh(Db, slot)
                  /\ ~memo[s].some \/ WrittenSince(Db, s, memo[s].val.verified_at)
           /\ slot \in executed' <=>
                \/ ~memo[slot].some
                \/ \E s \in Chain(u) :
                     memo'[s].val.changed_at > memo[slot].val.verified_at]_vars

\* the open set was written after diagnostics of a closed URI were memoized: its index
\* and tree were derived again, both absent as before, and the diagnostics were kept
C11_Witness ==
  /\ IsQuery(request)
  /\ pre.memoized.some
  /\ <<"source_index", request.uri>> \in executed
  /\ <<"ast", request.uri>> \in executed
  /\ <<request.op, request.uri>> \notin executed
  /\ reply = [type |-> "Value", value |-> <<>>]

(***************************************************************************)
(* C12: a request on a URI X never causes the memoized index, tree,        *)
(* diagnostics or tokens of another URI Y to be recomputed at Y's next     *)
(* query.  Y is open and its text was not written since the memo of the    *)
(* slot was verified, so every input write since then was made by a        *)
(* request on another URI (open and edit of Y write Y's text, and a close  *)
(* of Y would have left Y closed): the slot's query function must not run. *)
(***************************************************************************)
C12_OtherUriNotRecomputed ==
  [][QueryStep =>
       LET y == request'.uri
       IN  \A q \in Queries :
             (/\ memo[<<q, y>>].some
              /\ y \in opened_files.value
              /\ DepChangedAt(Db, SourceTextDep(y)) <= memo[<<q, y>>].val.verified_at)
             => <<q, y>> \notin executed']_vars

(***************************************************************************)
(* C13 as stated: only open and close requests change the membership of    *)
(* the open set; after any other request the open set is what it was       *)
(* before the request.                                                     *)
(***************************************************************************)
C13_OnlyOpenAndCloseMutate ==
  request.op \notin {"open", "close"} => opened_files.value = pre.opened_files

(***************************************************************************)
(* C13 amended: the membership of the open set is changed by open (adds    *)
(* the URI), by close (removes the URI) and by a full-sync edit of a URI   *)
(* that is not open (adds the URI, with the NotYetOpened error); a         *)
(* rejected edit, the edit of an open URI, get-diagnostics and             *)
(* get-semantic-tokens leave it as it was.                                 *)
(***************************************************************************)
C13_OpenSetMutators ==
  opened_files.value =
    CASE request.op = "open" -> pre.opened_files \cup {request.uri}
      [] request.op = "close" -> pre.opened_files \ {request.uri}
      [] request.op = "change" ->
           IF IsFullSync(request.content_changes)
           THEN pre.opened_files \cup {request.uri}
           ELSE pre.opened_files
      [] OTHER -> pre.opened_files

\* a full-sync edit of a URI that was not open, while another URI was: both are open now
C13_Witness ==
  /\ request.op = "change"
  /\ IsFullSync(request.content_changes)
  /\ request.uri \notin pre.opened_files
  /\ pre.opened_files # {}
  /\ opened_files.value = pre.opened_files \cup {request.uri}

(***************************************************************************)
(* The actor, as the claims below read it                                  *)
(***************************************************************************)
\* the request whose result the worker has computed and not yet sent
Replying == current.some /\ current.val.result.some
IsPrefix(s, t) == Len(s) <= Len(t) /\ \A i \in 1..Len(s) : s[i] = t[i]
NoDuplicates(s) == \A i, j \in 1..Len(s) : s[i] = s[j] => i = j

(***************************************************************************)
(* C14: the worker applies requests one at a time in the order they were   *)
(* enqueued: while it runs, the requests enqueued so far are those applied *)
(* (in that order), then the one in hand, then the buffered ones; a        *)
(* request is dequeued only when none is in hand, and the one in hand is   *)
(* released only after its result was computed and its reply sent (or the  *)
(* send failed); the store changes only in the worker's processing step.   *)
(***************************************************************************)
C14_OneAtATimeInFifoOrder ==
  [][/\ worker' = "running" => enqueued' = applied' \o InHand' \o buffer'
     /\ Replying' =>
          applied'[Len(applied')] = current'.val.request
     /\ Len(buffer') < Len(buffer) /\ worker' = "running"
          => current = None /\ InHand' = <<buffer[1]>>
     /\ current.some /\ current' = None /\ worker' = "running"
          => /\ Replying
             /\ oneshot[current.val.request.task] = OpenChannel
                  => oneshot'[current.val.request.task] = Sent(current.val.result.val)
     /\ storeVars' # storeVars
          => /\ worker = "running"
             /\ InHand # <<>>
             /\ applied' = applied \o InHand
             /\ request' = current.val.request.params
             /\ current' = Some([current.val EXCEPT !.result = Some(reply')])]_vars

\* requests of two callers were applied in turn; a third request is in hand, a fourth is
\* buffered and the sender of a fifth is suspended
C14_Witness ==
  /\ Len(applied) >= 2
  /\ applied[1].task # applied[2].task
  /\ InHand # <<>>
  /\ buffer # <<>>
  /\ waiters # <<>>

\* task c is suspended in rx.await for the reply of its k-th State operation
Waiting(c, k) == tasks[c].pc = "recv" /\ tasks[c].step = k
MaxSteps == 2

(***************************************************************************)
(* C15: the wait of a caller whose request was enqueued always ends, and   *)
(* it ends in one of two ways unless the caller itself stops waiting: with *)
(* the one value the worker sent for that request, which the worker sends  *)
(* at most once, or with AsyncError::Recv, which happens only after the    *)
(* worker failed and dropped the request's sender.                         *)
(***************************************************************************)
C15_WaitEndsWithReplyOrAsyncError ==
  /\ [][\A c \in 1..MaxTasks :
          /\ (tasks[c].pc = "recv" /\ tasks'[c] # tasks[c] /\ tasks'[c].pc # "dropped")
               => /\ returned'.task = c
                  /\ returned'.op = OpOf(c)
                  /\ \/ /\ oneshot[c].state = "sent"
                        /\ returned'.result = OpResult(OpOf(c), oneshot[c].value)
                     \/ /\ oneshot[c] = SenderDropped
                        /\ worker = "dead"
                        /\ returned'.result = AsyncFailure(OpOf(c), AsyncErrorRecv)
          /\ (oneshot'[c].state = "sent" /\ oneshot'[c] # oneshot[c])
               => /\ oneshot[c] = OpenChannel
                  /\ Replying
                  /\ current.val.request = Message(c, tasks[c])
                  /\ oneshot'[c].value = current.val.result.val]_vars
  /\ \A c \in 1..MaxFairTasks, k \in 1..MaxSteps : Waiting(c, k) ~> ~Waiting(c, k)

\* processing failed while a caller waited for its reply: its wait ended with AsyncError::Recv
C15_Witness ==
  /\ worker = "dead"
  /\ returned.op = "open"
  /\ returned.result = OpErrorAsync(AsyncErrorRecv)

\* a request that writes the text of its URI when it is applied
IsWrite(params) ==
  \/ params.op \in {"open", "close"}
  \/ params.op = "change" /\ IsFullSync(params.content_changes)
\* the text an applied write leaves for queries: none after a close
TextOf(params) ==
  CASE params.op = "open" -> Some(params.text)
    [] params.op = "change" -> Some(params.content_changes[1].text)
    [] params.op = "close" -> None
\* the position in log of the latest write of u, 0 if there is none
LatestWrite(log, u) ==
  SetMax({0} \cup {i \in 1..Len(log) : log[i].params.uri = u /\ IsWrite(log[i].params)})
\* the diagnostics of a text derived without the store
ExpectedDiagnostics(text) ==
  IF text.some THEN diagnostics_helper(Parse(text.val), IndexNew(text.val)) ELSE <<>>

(***************************************************************************)
(* C16: a handler's second request (get-diagnostics, sent after the reply  *)
(* to its open or edit arrived) is applied after its first in every        *)
(* interleaving, and the diagnostics it is answered are those of the text  *)
(* left by the latest write applied before it, which is the handler's own  *)
(* open or edit or a write applied after that: never an older state.       *)
(***************************************************************************)
C16_SameCallerInOrder ==
  /\ \A j \in 1..Len(applied) :
       applied[j].step = 2 =>
         \E i \in 1..(j - 1) : applied[i].task = applied[j].task /\ applied[i].step = 1
  /\ (applied # <<>> /\ applied[Len(applied)].step = 2) =>
       LET b == applied[Len(applied)]
           prior == SubSeq(applied, 1, Len(applied) - 1)
           w == LatestWrite(prior, b.params.uri)
       IN  /\ request = b.params
           /\ \E a \in 1..w : prior[a].task = b.task /\ prior[a].step = 1
           /\ reply = [type |-> "Value", value |-> ExpectedDiagnostics(TextOf(prior[w].params))]

\* between a handler's open and its get-diagnostics another caller's edit was applied:
\* the diagnostics are those of the edit's text
C16_Witness ==
  /\ applied # <<>>
  /\ applied[Len(applied)].step = 2
  /\ \E a, w \in 1..(Len(applied) - 1) :
       /\ a < w
       /\ applied[a].task = applied[Len(applied)].task
       /\ applied[a].params.op = "open"
       /\ applied[w].task # applied[a].task
       /\ applied[w].params.op = "change"
  /\ reply = [type |-> "Value", value |-> ExpectedDiagnostics(Some(BadText))]
  /\ reply.value # <<>>

\* task c has called its k-th State operation, which has not returned
Submitted(c, k) == Pending(c) /\ tasks[c].step = k
EnqueuedOf(c, k) == \E i \in 1..Len(enqueued) : enqueued[i].task = c /\ enqueued[i].step = k
AppliedOf(c, k) == \E i \in 1..Len(applied) : applied[i].task = c /\ applied[i].step = k
\* the caller was dropped while its send was suspended: the request never reached the queue
Withdrawn(c, k) == tasks[c].pc = "dropped" /\ ~EnqueuedOf(c, k)

(***************************************************************************)
(* C17: under fair scheduling of the worker and of the callers, every      *)
(* request a caller submits is eventually applied to the store, as long as *)
(* the worker lives and the caller is not dropped before its send          *)
(* completes; no request is applied twice, and the order of application is *)
(* one order for all callers, that of the queue.                           *)
(***************************************************************************)
C17_EveryRequestAppliedOnce ==
  /\ [](NoDuplicates(applied) /\ IsPrefix(applied, enqueued))
  /\ \A c \in 1..MaxFairTasks, k \in 1..MaxSteps :
       Submitted(c, k) ~> (AppliedOf(c, k) \/ worker = "dead" \/ Withdrawn(c, k))

\* two concurrent callers, the second suspended by the full queue: all four requests of
\* the two were applied, interleaved
C17_Witness ==
  /\ worker = "running"
  /\ Len(applied) = 4
  /\ applied[1].task # applied[2].task
  /\ \A c \in 1..MaxFairTasks : tasks[c].pc = "done"

Elements(seq) == {seq[i] : i \in 1..Len(seq)}

(***************************************************************************)
(* C18: the queue never holds more than one request.  A sender is          *)
(* suspended only when the queue is full, other senders wait or the        *)
(* channel is closed; the suspended senders are kept in order, and one     *)
(* leaves the wait only by having its request enqueued when the queue has  *)
(* room and it waited longest, by being dropped by its own caller, or with *)
(* AsyncError::Send after the worker failed: a request is never lost.      *)
(***************************************************************************)
C18_QueueHoldsAtMostOne ==
  [][/\ Len(buffer') <= Capacity
     /\ Len(waiters') = Cardinality(Elements(waiters'))
     /\ \A c \in 1..MaxTasks :
          /\ tasks'[c].pc = "send" <=> c \in Elements(waiters')
          /\ (tasks[c].pc # "send" /\ tasks'[c].pc = "send")
               => Len(buffer) = Capacity \/ waiters # <<>> \/ worker = "dead"
          /\ (tasks[c].pc = "send" /\ tasks'[c].pc # "send")
               => \/ /\ c = Head(waiters)
                     /\ worker = "running"
                     /\ Len(buffer) < Capacity
                     /\ buffer' = Append(buffer, Message(c, tasks[c]))
                     /\ tasks'[c] = Task("recv", tasks[c])
                  \/ tasks'[c].pc = "dropped"
                  \/ /\ worker = "dead"
                     /\ returned' = [task |-> c, op |-> OpOf(c),
                                     result |-> AsyncFailure(OpOf(c), AsyncErrorSend)]]_vars

\* the queue is full and the worker has not yet received: two senders are suspended
C18_Witness ==
  /\ worker = "running"
  /\ current = None
  /\ Len(buffer) = Capacity
  /\ Len(waiters) = 2

\* the caller of the request the worker holds has dropped its reply receiver
Abandoned == current.some /\ oneshot[current.val.request.task] = ReceiverDropped

(***************************************************************************)
(* C19: when the caller of an enqueued request has dropped its reply       *)
(* receiver, the worker still applies the request to the store (a write    *)
(* leaves its text and its membership of the open set), the send of the    *)
(* reply fails and is ignored, and the worker returns to the head of its   *)
(* loop with the queue untouched, as after a delivered reply.              *)
(***************************************************************************)
C19_AbandonedRequestStillApplied ==
  [][Abandoned =>
       /\ (InHand # <<>> /\ current' # current /\ worker' = "running") =>
            LET params == current.val.request.params
            IN  /\ applied' = Append(applied, current.val.request)
                /\ request' = params
                /\ current' = Some([current.val EXCEPT !.result = Some(reply')])
                /\ IsWrite(params) =>
                     /\ (params.uri \in opened_files'.value) <=> TextOf(params).some
                     /\ source_text'[params.uri].val.value =
                          (IF TextOf(params).some THEN TextOf(params).val ELSE "")
       /\ (Replying /\ current' # current) =>
            /\ worker' = "running"
            /\ current' = None
            /\ oneshot' = oneshot
            /\ UNCHANGED <<buffer, waiters, tasks, enqueued, applied, returned>>]_vars

\* the caller of an edit was dropped; the edit was applied all the same, its reply is about
\* to fail, and the next request waits in the queue
C19_Witness ==
  /\ Abandoned
  /\ Replying
  /\ current.val.request.params.op = "change"
  /\ IsOpen(ActorUri)
  /\ StoredText(ActorUri) = Some(BadText)
  /\ buffer # <<>>

\* task c's State operation returns in this step
Returns(c) == Pending(c) /\ tasks'[c] # tasks[c] /\ tasks'[c].pc # "dropped" /\ returned'.task = c
\* the State operation of c cannot get a reply: its request cannot be enqueued, or it
\* was enqueued and its oneshot sender was dropped without a value
Unanswerable(c) == tasks[c].pc = "send" \/ oneshot[c] = SenderDropped

(***************************************************************************)
(* C20 as stated: once the worker has terminated, a State operation that   *)
(* cannot get a reply completes with AsyncError::Send or AsyncError::Recv  *)
(* reported as OpError::Async, of message type Error, whichever of the     *)
(* five operations it is.                                                  *)
(***************************************************************************)
C20_ReportedAsOpErrorAsync ==
  [][\A c \in 1..MaxTasks :
       (worker = "dead" /\ Returns(c) /\ Unanswerable(c)) =>
         /\ returned'.result.type = "OpError::Async"
         /\ returned'.result.error \in {AsyncErrorSend, AsyncErrorRecv}
         /\ message_type(returned'.result) = "Error"]_vars

(***************************************************************************)
(* C20 amended: once the worker has terminated, a State operation whose    *)
(* request was not enqueued completes with AsyncError::Send, and one whose *)
(* request was enqueued and got no reply completes with AsyncError::Recv;  *)
(* open, edit and close report it as OpError::Async, get-diagnostics and   *)
(* get-semantic-tokens as the AsyncError itself; the message type is Error *)
(* in every case.  An operation whose reply was sent before the worker     *)
(* terminated still completes with that reply, and no operation is left    *)
(* without one of these outcomes.                                          *)
(***************************************************************************)
C20_AsyncErrorAfterWorkerEnd ==
  [][/\ worker' = "dead" =>
          \A c \in 1..MaxTasks :
            /\ tasks'[c].pc = "recv" => oneshot'[c].state \in {"sent", "sender_dropped"}
            /\ tasks'[c].pc = "send" =>
                 \A i \in 1..Len(enqueued') :
                   enqueued'[i].task # c \/ enqueued'[i].step # tasks'[c].step
     /\ \A c \in 1..MaxTasks :
          (worker = "dead" /\ Returns(c)) =>
            LET op == OpOf(c)
                error == IF tasks[c].pc = "send" THEN AsyncErrorSend ELSE AsyncErrorRecv
                result == returned'.result
            IN  /\ returned'.op = op
                /\ Unanswerable(c) =>
                     /\ result = (IF op \in {"open", "change", "close"}
                                  THEN OpErrorAsync(error) ELSE error)
                     /\ message_type(result) = "Error"
                     /\ result.type # "OpError::Op"
                     /\ tasks[c].pc = "recv" <=> EnqueuedOf(c, tasks[c].step)
                /\ ~Unanswerable(c) =>
                     /\ oneshot[c].state = "sent"
                     /\ result = OpResult(op, oneshot[c].value)]_vars

\* get-semantic-tokens was called after the worker had terminated: AsyncError::Send, bare
C20_Witness ==
  /\ worker = "dead"
  /\ returned.op = "semantic_tokens"
  /\ returned.result = AsyncErrorSend
  /\ message_type(returned.result) = "Error"

(***************************************************************************)
(* C21: the message type of every error kind is fixed.  AlreadyOpenError   *)
(* and NotYetOpenedError are Warnings, also inside EditError::NotYetOpened *)
(* and inside OpError::Op; EditError::IncrementalSync is an Error;         *)
(* AsyncError is an Error, also inside OpError::Async; a wrapper has the   *)
(* message type of what it wraps.  The errors the store replies are of     *)
(* these kinds, and what the State operation makes of the reply has the    *)
(* message type of the reply.                                              *)
(***************************************************************************)
\* the errors of the store and of State::process
StoreErrors ==
  {AlreadyOpenError(u) : u \in Uri} \cup {NotYetOpenedError(u) : u \in Uri}
    \cup {EditNotYetOpened(NotYetOpenedError(u)) : u \in Uri}
    \cup {IncrementalSync(u, v) : u \in Uri, v \in StoreVersions \cup ChangeVersions}
AsyncErrors == {AsyncErrorSend, AsyncErrorRecv}

C21_SeverityFixedPerKind ==
  /\ \A u \in Uri :
       /\ message_type(AlreadyOpenError(u)) = "Warning"
       /\ message_type(NotYetOpenedError(u)) = "Warning"
       /\ message_type(EditNotYetOpened(NotYetOpenedError(u))) = "Warning"
       /\ message_type(OpErrorOp(AlreadyOpenError(u))) = "Warning"
       /\ message_type(OpErrorOp(NotYetOpenedError(u))) = "Warning"
       /\ message_type(OpErrorOp(EditNotYetOpened(NotYetOpenedError(u)))) = "Warning"
       /\ \A v \in StoreVersions \cup ChangeVersions :
            /\ message_type(IncrementalSync(u, v)) = "Error"
            /\ message_type(OpErrorOp(IncrementalSync(u, v))) = "Error"
  /\ \A e \in AsyncErrors :
       message_type(e) = "Error" /\ message_type(OpErrorAsync(e)) = "Error"
  /\ \A e \in StoreErrors : message_type(OpErrorOp(e)) = message_type(e)
  /\ (request.op \in {"open", "change", "close"} /\ reply # Ok) =>
       /\ reply \in StoreErrors
       /\ OpResult(request.op, reply) = OpErrorOp(reply)
       /\ message_type(OpResult(request.op, reply)) = message_type(reply)
       /\ message_type(reply) = "Error" <=> reply.type = "EditError::IncrementalSync"

\* an edit of a document that is not open replied a NotYetOpenedError wrapped twice
C21_Witness ==
  /\ request.op = "change"
  /\ reply = EditNotYetOpened(NotYetOpenedError(request.uri))
  /\ message_type(OpResult(request.op, reply)) = "Warning"

(***************************************************************************)
(* C22: a bookkeeping warning does not abort the handler that gets it.     *)
(* When open_document, edit_document or close_document returns an          *)
(* OpError::Op whose message type is Warning (did_open of an open URI,     *)
(* did_change or did_close of a URI that is not open), the request was     *)
(* applied to the store and the handler goes on: did_open and did_change   *)
(* call get_diagnostics, did_close returns.                                *)
(***************************************************************************)
\* the State operation that returned last gave its handler a bookkeeping warning
WarningReturned ==
  /\ returned.op \in {"open", "change", "close"}
  /\ returned.result.type = "OpError::Op"
  /\ message_type(returned.result) = "Warning"

C22_WarningDoesNotAbortHandler ==
  WarningReturned =>
    /\ \E i \in 1..Len(applied) : applied[i].task = returned.task /\ applied[i].step = 1
    /\ tasks[returned.task].pc # "panicked"
    /\ returned.op \in {"open", "change"} =>
         \/ tasks[returned.task].pc = "dropped"
         \/ tasks[returned.task].pc \in {"send", "recv"} /\ tasks[returned.task].step = 2

(***************************************************************************)
(* The nodes of a tree by their paths: the path of a node is the sequence  *)
(* of the child positions that lead to it from the root.                   *)
(***************************************************************************)
RECURSIVE PathsOf(_)
PathsOf(n) ==
  {<<>>} \cup UNION {{<<i>> \o p : p \in PathsOf(n.children[i])} : i \in 1..Len(n.children)}

RECURSIVE NodeAt(_, _)
NodeAt(n, p) == IF p = <<>> THEN n ELSE NodeAt(n.children[Head(p)], Tail(p))

Marked(n) == n.is_error \/ n.is_missing

(***************************************************************************)
(* C23: the diagnostics of a tree are empty exactly when no node of the    *)
(* tree is marked error and none is marked missing, and every diagnostic   *)
(* has severity Error.                                                     *)
(***************************************************************************)
C23_EmptyIffNoErrorOrMissing ==
  output.of = "diagnostics_helper" =>
    /\ output.value = <<>> <=> \A p \in PathsOf(root) : ~Marked(NodeAt(root, p))
    /\ \A i \in 1..Len(output.value) : output.value[i].severity = SeverityError

\* the only marked node is a missing one two levels below a plain root
C23_Witness ==
  /\ output.of = "diagnostics_helper"
  /\ output.value # <<>>
  /\ \E p \in PathsOf(root) :
       /\ Len(p) = 2
       /\ NodeAt(root, p).is_missing
       /\ \A q \in PathsOf(root) \ {p} : ~Marked(NodeAt(root, q))

(***************************************************************************)
(* C24: the diagnostics walk yields exactly one diagnostic per topmost     *)
(* marked node (a node marked error or missing none of whose ancestors is  *)
(* marked), in the pre-order of these nodes, with the message "syntax      *)
(* error" for an error node and "syntax missing" for a missing node and    *)
(* the node's own start and end as its range; the nodes below a marked     *)
(* node add nothing.                                                       *)
(***************************************************************************)
Topmost(n, p) ==
  /\ Marked(NodeAt(n, p))
  /\ \A k \in 0..(Len(p) - 1) : ~Marked(NodeAt(n, SubSeq(p, 1, k)))

\* p comes before q in pre-order: p is an ancestor of q, or p branches off to the left
PreOrderBefore(p, q) ==
  \E k \in 0..Len(p) :
     /\ k <= Len(q)
     /\ SubSeq(p, 1, k) = SubSeq(q, 1, k)
     /\ \/ k = Len(p) /\ k < Len(q)
        \/ k < Len(p) /\ k < Len(q) /\ p[k + 1] < q[k + 1]

RECURSIVE InPreOrder(_)
InPreOrder(paths) ==
  IF paths = {} THEN <<>>
  ELSE LET p == CHOOSE x \in paths : \A y \in paths \ {x} : PreOrderBefore(x, y)
       IN  <<p>> \o InPreOrder(paths \ {p})

DiagnosticOf(n, index) ==
  [range |-> [start |-> to_lsp(index, n.start), end |-> to_lsp(index, n.end)],
   message |-> IF n.is_error THEN "syntax error" ELSE "syntax missing",
   severity |-> "Error"]

C24_OnePerTopmostNodeInPreOrder ==
  output.of = "diagnostics_helper" =>
    LET paths == InPreOrder({p \in PathsOf(root) : Topmost(root, p)})
    IN  /\ Len(output.value) = Len(paths)
        /\ \A i \in 1..Len(paths) :
             output.value[i] = DiagnosticOf(NodeAt(root, paths[i]), text_index)

\* two topmost marked nodes, the first an error node with a marked node below it
C24_Witness ==
  /\ output.of = "diagnostics_helper"
  /\ Len(output.value) = 2
  /\ output.value[1].message = "syntax error"
  /\ output.value[2].message = "syntax missing"
  /\ \E p \in PathsOf(root) : Marked(NodeAt(root, p)) /\ ~Topmost(root, p)

(***************************************************************************)
(* C25: a comment, string or identifier node from (r0, c0) to (r1, c1)     *)
(* yields r1 - r0 + 1 absolute tokens, one per covered line in increasing  *)
(* line order, all of the node's token type.  The token of line r0 starts  *)
(* at c0, the tokens of the later lines start at column 0, every token of  *)
(* a line before r1 ends at the end of its line and the token of line r1   *)
(* ends at c1.  Starts and ends are UTF-16 offsets in the line.            *)
(***************************************************************************)
RECURSIVE Units(_, _)
\* the UTF-16 code units of the first n characters of a line
Units(line, n) == IF n = 0 THEN 0 ELSE Units(line, n - 1) + Utf16Len(line[n])
\* the UTF-16 offset of a byte column that lies between two characters of the line
UnitsAt(line, column) ==
  Units(line, CHOOSE n \in 0..Len(line) : Bytes(line, n) = column)

TokenTypeOf(kind) ==
  CASE kind = "comment" -> 0 [] kind = "string" -> 1 [] kind = "identifier" -> 2

C25_OneTokenPerCoveredLine ==
  (output.of = "absolute_tokens" /\ root \in TokenTrees) =>
    LET n == root.children[1]
        r0 == n.start.row
        r1 == n.end.row
        v == output.value
    IN  /\ Len(v) = r1 - r0 + 1
        /\ \A i \in 1..Len(v) :
             LET line == text_index[r0 + i]
             IN  /\ v[i].line = r0 + i - 1
                 /\ v[i].token_type = TokenTypeOf(n.kind)
                 /\ v[i].start = IF i = 1 THEN UnitsAt(line, n.start.column) ELSE 0
                 /\ v[i].start + v[i].length =
                      IF r0 + i - 1 < r1 THEN Units(line, Len(line))
                      ELSE UnitsAt(line, n.end.column)
                 /\ v[i].length >= 0

\* a string over the three lines of WideText that starts behind the first column
C25_Witness ==
  /\ output.of = "absolute_tokens"
  /\ root \in TokenTrees
  /\ root.children[1].kind = "string"
  /\ root.children[1].start = Point(0, 4)
  /\ root.children[1].end = Point(2, 2)
  /\ output.value = << AbsoluteToken(0, 4, 2, String), AbsoluteToken(1, 0, 4, String),
                       AbsoluteToken(2, 0, 2, String) >>

(***************************************************************************)
(* C26: the delta pass maps a list of absolute tokens to a list of the     *)
(* same length, the empty list to the empty list.  Every token keeps its   *)
(* length and its token type and gets the modifier bitset 0.  The first    *)
(* token carries its own line and start; every later token carries as      *)
(* delta_line its line minus the line of the token before it, and as       *)
(* delta_start its start minus the start of the token before it when both  *)
(* are on one line, its own start otherwise.                               *)
(***************************************************************************)
C26_DeltaPass ==
  output.of = "make_relative" =>
    LET v == output.value
        ts == absolute
    IN  /\ Len(v) = Len(ts)
        /\ \A i \in 1..Len(ts) :
             /\ v[i].length = ts[i].length
             /\ v[i].token_type = ts[i].token_type
             /\ v[i].token_modifiers_bitset = 0
             /\ v[i].delta_line = IF i = 1 THEN ts[i].line ELSE ts[i].line - ts[i - 1].line
             /\ v[i].delta_start =
                  IF i > 1 /\ ts[i].line = ts[i - 1].line
                  THEN ts[i].start - ts[i - 1].start
                  ELSE ts[i].start

\* three tokens, the first off the origin, the third on a later line at a start
\* before the start of the second
C26_Witness ==
  /\ output.of = "make_relative"
  /\ Len(absolute) = 3
  /\ absolute[1].line = 0 /\ absolute[1].start = 1
  /\ absolute[2].line = 0 /\ absolute[2].start = 2
  /\ absolute[3].line = 1 /\ absolute[3].start = 0
  /\ output.value[2].delta_start = 1
  /\ output.value[3].delta_line = 1
  /\ output.value[3].delta_start = 0

LegendAt(token_type) == Legend.token_types[token_type + 1]

CategoryOf(kind) ==
  CASE kind = "comment" -> "comment"
    [] kind = "string" -> "string"
    [] kind = "identifier" -> "variable"

C28_TokenTypeIsLegendIndex ==
  /\ Legend = [token_types |-> <<"comment", "string", "variable">>, token_modifiers |-> <<>>]
  /\ (output.of = "make_relative" /\ root \in TokenTrees /\ absolute # <<>>) =>
       \A i \in 1..Len(output.value) :
          /\ output.value[i].token_type \in 0..2
          /\ LegendAt(output.value[i].token_type) = CategoryOf(root.children[1].kind)
          /\ output.value[i].token_modifiers_bitset = 0

\* the tokens of an identifier over two lines carry 2, which the legend names variable
C28_Witness ==
  /\ output.of = "make_relative"
  /\ root \in TokenTrees
  /\ root.children[1].kind = "identifier"
  /\ Len(output.value) = 2
  /\ \A i \in 1..2 : output.value[i].token_type = 2
  /\ LegendAt(2) = "variable"

(***************************************************************************)
(* C29: a position whose column is unbounded, or any column past the end   *)
(* of its row, converts to the UTF-16 offset of the end of the row; so the *)
(* length of a token built without an end column is the UTF-16 offset of   *)
(* the end of its row minus the start offset of the token, and is not      *)
(* negative.                                                               *)
(***************************************************************************)
C29_UnboundedColumnIsEndOfLine ==
  \A r \in 0..(Len(text_index) - 1) :
     LET line == text_index[r + 1]
         bytes == Bytes(line, Len(line))
         eol == Units(line, Len(line))
     IN  /\ to_lsp(text_index, Point(r, UsizeMax)) = Position(r, eol)
         /\ \A c \in bytes..(bytes + 2) : to_lsp(text_index, Point(r, c)) = Position(r, eol)
         /\ \A n \in 0..Len(line) :
              LET t == via_index(text_index, r, Bytes(line, n), None, String)
              IN  /\ t.start = Units(line, n)
                  /\ t.length = eol - t.start
                  /\ t.length >= 0

\* a token to the end of the row of WideText that starts with a four-byte character:
\* it starts behind that character, at byte 4 and UTF-16 offset 2, and is 2 units long
C29_Witness ==
  /\ text_index = WideIndex
  /\ output.of = "absolute_tokens"
  /\ root.children[1].start = Point(1, 4)
  /\ root.children[1].end.row = 2
  /\ output.value[1].line = 1
  /\ output.value[1].start = 2
  /\ output.value[1].length = 2

(***************************************************************************)
(* C30: the caching layer compares syntax snapshots by identity.  A        *)
(* memoized snapshot equals itself; a snapshot that an execution of ast    *)
(* produces is not equal to the snapshot memoized before, whatever the     *)
(* text and the tree, and counts as changed; and a query for the           *)
(* diagnostics or the tokens of a URI whose tree was derived after their   *)
(* memo was last verified runs the query function again.                   *)
(***************************************************************************)
\* the memoized snapshot of u in the database d, if ast(u) holds one
SnapshotOf(d, u) ==
  IF d.memo[<<"ast", u>>].some THEN d.memo[<<"ast", u>>].val.value ELSE None

C30_SnapshotsEqualByIdentityOnly ==
  [][QueryStep =>
       LET u == request'.uri
           slot == <<request'.op, u>>
           old == SnapshotOf(Db, u)
           new == SnapshotOf(Db', u)
       IN  /\ new.some => AstEq(new.val, new.val)
           /\ (<<"ast", u>> \in executed' /\ new.some /\ old.some) =>
                /\ ~AstEq(new.val, old.val)
                /\ memo'[<<"ast", u>>].val.changed_at > memo[<<"ast", u>>].val.changed_at
           /\ (/\ new.some
               /\ memo[slot].some
               /\ new.val.id[2] > memo[slot].val.verified_at) =>
                slot \in executed']_vars

\* the tree of an open document was derived again from the text it had before, and
\* its diagnostics were computed again and came out as they were
C30_Witness ==
  /\ request.op = "diagnostics"
  /\ <<"ast", request.uri>> \in executed
  /\ <<"diagnostics", request.uri>> \in executed
  /\ pre.source_text[request.uri] = StoredText(request.uri)
  /\ pre.memoized.some
  /\ pre.memoized.val # <<>>
  /\ reply = [type |-> "Value", value |-> pre.memoized.val]

(***************************************************************************)
(* C31: a change that is refused as incremental sync changes nothing in    *)
(* the store, whatever the state of its URI: the stored text of every URI  *)
(* and the open set are as before.  A batch that is not one full-text      *)
(* change for a URI that is not open is refused as IncrementalSync, not as *)
(* NotYetOpened, and the URI is not inserted into the open set: the shape  *)
(* of the batch is tested before anything is written.                      *)
(***************************************************************************)
C31_IncrementalSyncChangesNothing ==
  request.op = "change" =>
    LET u == request.uri
    IN  /\ reply.type = "EditError::IncrementalSync" =>
             /\ \A w \in Uri : StoredText(w) = pre.source_text[w]
             /\ opened_files.value = pre.opened_files
        /\ (~IsFullSync(request.content_changes) /\ u \notin pre.opened_files) =>
             /\ reply = IncrementalSync(u, request.version)
             /\ ~IsOpen(u)

\* a ranged change for a closed document while the other document is open: refused,
\* still closed, still the empty text left by the close
C31_Witness ==
  /\ request.op = "change"
  /\ reply.type = "EditError::IncrementalSync"
  /\ Len(request.content_changes) = 1
  /\ request.uri \notin pre.opened_files
  /\ pre.source_text[request.uri] = Some("")
  /\ pre.opened_files /= {}
  /\ ~IsOpen(request.uri)
  /\ StoredText(request.uri) = Some("")

(***************************************************************************)
(* C32: a change with an empty batch, and a change whose batch is one      *)
(* change with null range and non-null range-length, are both refused as   *)
(* IncrementalSync and leave the stored text of every URI as it was; the   *)
(* accepted batches are exactly those of one change with null range and    *)
(* null range-length.                                                      *)
(***************************************************************************)
IsLengthOnly(batch) ==
  Len(batch) = 1 /\ ~batch[1].range.some /\ batch[1].range_length.some

C32_AcceptedIffOneFullTextChange ==
  request.op = "change" =>
    LET batch == request.content_changes
    IN  /\ (batch = <<>> \/ IsLengthOnly(batch)) =>
             /\ reply = IncrementalSync(request.uri, request.version)
             /\ \A w \in Uri : StoredText(w) = pre.source_text[w]
        /\ reply.type /= "EditError::IncrementalSync" <=> IsFullSync(batch)
        /\ reply.type \in {"Ok", "EditError::NotYetOpened", "EditError::IncrementalSync"}

\* a change with range-length only, the second of two refused changes, for a URI that was
\* never written: nothing was written and there is still no text
C32_Witness ==
  /\ request.op = "change"
  /\ IsLengthOnly(request.content_changes)
  /\ reply.type = "EditError::IncrementalSync"
  /\ handled = 2
  /\ revision = DatabaseDefault.revision
  /\ StoredText(request.uri) = None

(***************************************************************************)
(* C33: open, edit and close of URI u never change the stored text or the  *)
(* open-set membership of another URI v, whether the reply is Ok or an     *)
(* error.                                                                  *)
(***************************************************************************)
C33_OtherUrisUntouched ==
  request.op \in {"open", "change", "close"} =>
    \A v \in Uri \ {request.uri} :
      /\ StoredText(v) = pre.source_text[v]
      /\ IsOpen(v) <=> v \in pre.opened_files

\* an open that was answered Ok, and whose write to the open set kept the other,
\* open document with its text
C33_Witness ==
  /\ request.op = "open"
  /\ reply = Ok
  /\ \E v \in Uri \ {request.uri} :
       /\ v \in pre.opened_files
       /\ pre.source_text[v] = Some(HelloText)
       /\ request.text /= HelloText
       /\ IsOpen(v)
       /\ StoredText(v) = Some(HelloText)

(***************************************************************************)
(* C34: in every reachable state of the store, a URI that is not in the    *)
(* open set was never written or holds the empty string: no closed URI     *)
(* keeps a non-empty text.                                                 *)
(***************************************************************************)
C34_ClosedUrisHoldNoText ==
  \A u \in Uri : ~IsOpen(u) => StoredText(u) \in {None, Some("")}

\* a document that held a text is closed and holds the empty string, while the other
\* URI was never written
C34_Witness ==
  /\ request.op = "close"
  /\ reply = Ok
  /\ pre.source_text[request.uri] = Some(HelloText)
  /\ ~IsOpen(request.uri)
  /\ StoredText(request.uri) = Some("")
  /\ \E v \in Uri \ {request.uri} : ~IsOpen(v) /\ StoredText(v) = None

(***************************************************************************)
(* C35: the lifecycle of a document can be repeated.  An open(u, T) that   *)
(* follows a close of u (the close left the empty string as the text of u) *)
(* is answered Ok, not AlreadyOpen, and u is open again with the text T;   *)
(* a derived query for u that follows the open is answered from T, not     *)
(* from the empty text left by the close and not from the text held before *)
(* the close.                                                              *)
(***************************************************************************)
\* the semantic tokens of a text derived without the store
ExpectedTokens(text) == make_relative(absolute_tokens(Parse(text), IndexNew(text)))

C35_LifecycleCanBeRepeated ==
  LET u == request.uri
  IN  /\ (request.op = "open" /\ pre.source_text[u] = Some("")) =>
           /\ reply = Ok
           /\ IsOpen(u)
           /\ StoredText(u) = Some(request.text)
      /\ (request.op = "diagnostics" /\ lastWrite[u].kind = "open") =>
           reply = [type |-> "Value", value |-> ExpectedDiagnostics(Some(lastWrite[u].text))]
      /\ (request.op = "semantic_tokens" /\ lastWrite[u].kind = "open") =>
           reply = [type |-> "Value", value |-> ExpectedTokens(lastWrite[u].text)]

\* open, tokens, close, open with another text, tokens: the memo held the tokens of the
\* first text and the answer is the tokens of the second
C35_Witness ==
  /\ handled = 5
  /\ request.op = "semantic_tokens"
  /\ lastWrite[request.uri] = Write("open", MultiText)
  /\ revision = DatabaseDefault.revision + 6
  /\ pre.memoized = Some(ExpectedTokens(HelloText))
  /\ reply = [type |-> "Value", value |-> ExpectedTokens(MultiText)]
  /\ reply.value /= <<>>
  /\ reply.value /= ExpectedTokens(HelloText)

(***************************************************************************)
(* C36: the absolute token list that the tree walk produces is in document *)
(* order: the line of a token is not less than the line of the token       *)
(* before it, and on the same line its start is not less than that token's *)
(* start.  So none of the u32 subtractions underflows for a list the walk  *)
(* produces: end minus start in the length of a token, line minus previous *)
(* line and start minus previous start in the delta pass.                  *)
(***************************************************************************)
NoUnderflow(relative) ==
  \A i \in 1..Len(relative) :
     /\ relative[i].delta_line /= U32Underflow
     /\ relative[i].delta_start /= U32Underflow
     /\ relative[i].length /= U32Underflow

C36_WalkOrderNoUnderflow ==
  /\ output.of = "absolute_tokens" =>
       /\ InDocumentOrder(output.value)
       /\ \A i \in 1..Len(output.value) : output.value[i].length /= U32Underflow
       /\ NoUnderflow(make_relative(output.value))
  /\ (output.of = "make_relative" /\ absolute = absolute_tokens(root, text_index)) =>
       NoUnderflow(output.value)

\* the delta pass ran on the tokens of a walk: a token of several lines whose rows after
\* the first start left of the row before, and a second token on its last line
C36_Witness ==
  /\ output.of = "make_relative"
  /\ root \in TokenPairTrees
  /\ absolute = absolute_tokens(root, text_index)
  /\ Len(absolute) = 4
  /\ absolute[1].start > absolute[2].start
  /\ absolute[3].line = absolute[4].line
  /\ absolute[3].start < absolute[4].start
  /\ absolute[4].length > 0
  /\ output.value[4].delta_line = 0
  /\ output.value[4].delta_start = absolute[3].length

(***************************************************************************)
(* C37: the delta pass loses no position.  For every absolute token list   *)
(* in document order, decoding what the pass returns (line = previous line *)
(* + delta_line; start = previous start + delta_start when delta_line is   *)
(* 0, delta_start otherwise; the first token against line 0, start 0)      *)
(* gives back the line, start, length and token type of every token.       *)
(***************************************************************************)
RECURSIVE DecodeFrom(_, _, _, _)
DecodeFrom(relative, i, line, start) ==
  IF i > Len(relative) THEN <<>>
  ELSE LET l == line + relative[i].delta_line
           s == IF relative[i].delta_line = 0 THEN start + relative[i].delta_start
                ELSE relative[i].delta_start
       IN  <<AbsoluteToken(l, s, relative[i].length, relative[i].token_type)>>
           \o DecodeFrom(relative, i + 1, l, s)
Decode(relative) == DecodeFrom(relative, 1, 0, 0)

C37_DecodeGivesBackTheTokens ==
  (output.of = "make_relative" /\ InDocumentOrder(absolute)) =>
    Decode(output.value) = absolute

\* three tokens of a walk: the second on a later line and left of the first, the third
\* on the line of the second
C37_Witness ==
  /\ output.of = "make_relative"
  /\ Len(absolute) = 3
  /\ absolute[1].line < absolute[2].line
  /\ absolute[1].start > absolute[2].start
  /\ absolute[2].line = absolute[3].line
  /\ absolute[2].start < absolute[3].start
  /\ output.value[2].delta_start = absolute[2].start
  /\ output.value[3].delta_start > 0
  /\ absolute[1].length > 1
  /\ Decode(output.value) = absolute

(***************************************************************************)
(* C38: a handler's edit and the get-diagnostics that follows it are two   *)
(* requests, not one atomic step.  With two or more callers, another       *)
(* caller's open, edit or close of the same URI can be applied between     *)
(* them.  The diagnostics returned are those of the text the store holds   *)
(* for the URI when the get-diagnostics request is applied (of no text if  *)
(* the URI is closed by then): never a mixture, and never of a state older *)
(* than the caller's own edit.                                             *)
(***************************************************************************)
\* the text of u that queries see: none while u is not open
OpenText(u) == IF IsOpen(u) THEN StoredText(u) ELSE None

C38_DiagnosticsOfTheStoreWhenApplied ==
  (applied # <<>> /\ applied[Len(applied)].params.op = "diagnostics") =>
    LET b == applied[Len(applied)]
    IN  /\ reply = [type |-> "Value", value |-> ExpectedDiagnostics(OpenText(b.params.uri))]
        /\ \E a \in 1..(Len(applied) - 1) :
             /\ applied[a].task = b.task
             /\ applied[a].step = 1
             /\ IsWrite(applied[a].params)

\* a close by another caller was applied between a handler's edit and its
\* get-diagnostics: the edit's text has diagnostics, the answer has none
C38_Witness ==
  /\ Len(applied) >= 3
  /\ LET n == Len(applied)
     IN  /\ applied[n].params.op = "diagnostics"
         /\ applied[n].step = 2
         /\ applied[n - 1].params.op = "close"
         /\ applied[n - 1].task # applied[n].task
         /\ applied[n - 1].params.uri = applied[n].params.uri
         /\ applied[n - 2].params.op = "change"
         /\ applied[n - 2].task = applied[n].task
         /\ ExpectedDiagnostics(TextOf(applied[n - 2].params)) # <<>>
  /\ ~IsOpen(request.uri)
  /\ reply = [type |-> "Value", value |-> <<>>]

(***************************************************************************)
(* C39: the worker ends exactly when its channel is closed and drained.    *)
(* It leaves its loop only after the State (the only sender) was dropped   *)
(* and every request enqueued before was served; while the sender exists   *)
(* the worker stops only if the processing of a request fails.  Once the   *)
(* sender is dropped the worker does stop: it leaves the loop with all     *)
(* enqueued requests applied, unless a request fails before.               *)
(***************************************************************************)
Drained == buffer = <<>> /\ current = None /\ applied = enqueued

C39_WorkerEndsWhenClosedAndDrained ==
  /\ [](worker = "exited" => tx = "dropped" /\ Drained)
  /\ [][(worker = "running" /\ worker' # "running") =>
          \/ tx = "dropped" /\ Drained /\ worker' = "exited"
          \/ InHand # <<>> /\ worker' = "dead"]_vars
  /\ (tx = "dropped") ~> (worker = "dead" \/ (worker = "exited" /\ Drained))

\* the worker left its loop after it had served a request whose caller was dropped
\* while the request was in the channel
C39_Witness ==
  /\ worker = "exited"
  /\ tx = "dropped"
  /\ \E c \in 1..MaxFairTasks :
       /\ tasks[c].pc = "dropped"
       /\ oneshot[c] = ReceiverDropped
       /\ applied # <<>>
       /\ applied[Len(applied)].task = c

====
